---------------------------- MODULE Spec2Model ----------------------------
(***************************************************************************)
(* Verification model of the strategy execution core of babybloomberg      *)
(* (src/src/strategy.py, bounded.py, multi_bounded.py, multi_strategy.py,  *)
(* buy.py, sell.py, stockframe_manager.py, operations_manager.py,          *)
(* processing.py).                                                         *)
(*                                                                         *)
(* Numbers.  Money is counted in cents (the code rounds every monetary     *)
(* amount to 2 decimals), prices are in cents (redondear_precio rounds the *)
(* Close column to 2 decimals) and stock is counted in units of 1e-8       *)
(* shares (the code rounds every traded stock amount to 8 decimals).  A    *)
(* quantity argument q stands for the Python float q/100: under "static"   *)
(* sizing it is q cents, under the percentage sizings it is q percent.     *)
(* round() is modelled on the exact decimal value with ties to even.  The  *)
(* one place where the binary floating point evaluation decides the        *)
(* control flow on cent-valued operands, the cash sufficiency test of      *)
(* buy, is modelled by the table FloatSlack of the IEEE-754 results.       *)
(*                                                                         *)
(* Dates are day numbers 0..MaxDate; ISO date strings of one month compare *)
(* exactly like their day numbers.  Where the code does calendar           *)
(* arithmetic on a date, day number 0 is the string 2024-01-01, and        *)
(* strings are tuples of their characters.                                 *)
(***************************************************************************)
EXTENDS Integers, Sequences, FiniteSets, TLC

\* ------------------------------------------------------------------ bounds
MaxDate == 3
MaxOps == 2
MaxMoney == 40
MaxObjects == 7
MaxTrades == 4

\* -------------------------------------------------------- program constants
StockUnit == 100000000

\* Python's None, and a present value v.
None == <<>>
Some(v) == <<v>>
Val(o) == o[1]

Dates == 0..MaxDate

\* The dates the driver passes: day 0 (no price resolvable), day 2 (no row,
\* resolved by the fallback) and day 3 (a trading day).
CallDates == {0, 2, 3}

\* Call inputs.
Quantities == {3, 40}
SizingTypes == {"static", "initial", "current"}
Overrides == {"None"}
Capitals == {2, 10}
CloseTriggers == {"force_close", "manual_close"}

\* Price series: date -> Close in cents, on the trading days only.  Day 0
\* lies before the first row of every series; GapSeries has no row for day 2.
GapSeries == (1 :> 30) @@ (3 :> 90)

\* Manual order configurations (lists of order dicts).
Order(t, d, a) == [type |-> t, date |-> d, amount |-> a]
SomeOrders == <<Order("buy", 2, 40), Order("buy", 2, 3), Order("sell", 3, 40), Order("sell_all", 3, 0)>>
ManualConfigs == {SomeOrders}

VARIABLES
    sf,      \* the StockFrame shared by every strategy: date -> Close
    heap,    \* the strategy objects, indexed by identity
    root,    \* identity of the strategy the driver calls
    last,    \* the last call made by the driver and the signal it raised
    calc     \* a call of a helper function made on its own, and its outcome

vars == <<sf, heap, root, last, calc>>

\* ------------------------------------------------------------- arithmetic
\* round(n / d) to an integer, ties to even; d > 0.
RoundHalfEven(n, d) ==
    LET q == n \div d
        r == n % d
    IN  IF 2 * r > d THEN q + 1
        ELSE IF 2 * r = d THEN q + (q % 2)
        ELSE q

\* float(round(cash / price, 8)) in stock units, by long division so that
\* no intermediate product leaves the 32-bit range.
StockFor(cash, price) ==
    LET q0 == cash \div price
        r0 == cash % price
        d1 == (r0 * 10000) \div price
        r1 == (r0 * 10000) % price
        d2 == (r1 * 10000) \div price
        r2 == (r1 * 10000) % price
        up == IF 2 * r2 > price THEN 1
              ELSE IF 2 * r2 = price THEN d2 % 2
              ELSE 0
    IN  q0 * StockUnit + d1 * 10000 + d2 + up

\* round(stock * price * quantity, 2) in cents for stock >= 0 units, price
\* in cents and quantity q/100: the value stock*price*q / (100 * 1e8)
\* rounded to an integer, computed limb by limb.
PositionValueNat(units, price, q) ==
    LET m  == price * q
        a  == units \div StockUnit
        b  == units % StockUnit
        c  == b \div 10000
        e  == b % 10000
        c2 == c * m + ((e * m) \div 10000)
        e2 == (e * m) % 10000
        U  == a * m + (c2 \div 10000)
        W  == (c2 % 10000) * 10000 + e2
        q0 == U \div 100
        r0 == U % 100
        hi == 2 * r0 + ((2 * W) \div StockUnit)
        lo == (2 * W) % StockUnit
    IN  IF hi > 100 \/ (hi = 100 /\ lo > 0) THEN q0 + 1
        ELSE IF hi = 100 /\ lo = 0 THEN q0 + (q0 % 2)
        ELSE q0

PositionValue(units, price, q) ==
    IF units >= 0 THEN PositionValueNat(units, price, q)
    ELSE 0 - PositionValueNat(0 - units, price, q)

\* ------------------------------------------------------------- StockFrame
get_price_in(date) ==
    IF date \in DOMAIN sf THEN Some(sf[date]) ELSE None

first_available_date == CHOOSE d \in DOMAIN sf : \A e \in DOMAIN sf : d <= e

\* Mutant: only the target date itself is looked up.
WalkBack_TargetOnly(current) ==
    IF current >= first_available_date THEN get_price_in(current) ELSE None

RECURSIVE WalkBack(_)
WalkBack(current) ==
    IF current >= first_available_date
    THEN IF get_price_in(current) # None THEN get_price_in(current)
         ELSE WalkBack(current - 1)
    ELSE None

get_last_valid_price(target_date) == WalkBack(target_date)

\* The price resolution shared by buy, buy_all, sell and sell_all.
ResolvePrice(date) ==
    IF get_price_in(date) = None THEN get_last_valid_price(date)
    ELSE get_price_in(date)

\* -------------------------------------------------------------- processing
\* A Python str is a sequence of one-character strings; an interval string
\* is given by the tokens intervalo_str.split() finds in it.
Digits == <<"0", "1", "2", "3", "4", "5", "6", "7", "8", "9">>
UpperCase == <<"A", "B", "C", "D", "E", "F", "G", "H", "I", "J", "K", "L", "M", "N", "O", "P", "Q", "R", "S", "T", "U", "V", "W", "X", "Y", "Z">>
LowerCase == <<"a", "b", "c", "d", "e", "f", "g", "h", "i", "j", "k", "l", "m", "n", "o", "p", "q", "r", "s", "t", "u", "v", "w", "x", "y", "z">>

DigitOf(c) == (CHOOSE i \in 1..Len(Digits) : Digits[i] = c) - 1
DigitAt(n, power) == Digits[((n \div power) % 10) + 1]

\* int(token) for an optional minus sign followed by decimal digits.
RECURSIVE ParseDigits(_, _)
ParseDigits(token, acc) ==
    IF token = <<>> THEN acc
    ELSE ParseDigits(Tail(token), 10 * acc + DigitOf(Head(token)))

int(token) ==
    IF Head(token) = "-" THEN 0 - ParseDigits(Tail(token), 0) ELSE ParseDigits(token, 0)

\* str.lower()
LowerChar(c) ==
    IF \E i \in 1..Len(UpperCase) : UpperCase[i] = c
    THEN LowerCase[CHOOSE i \in 1..Len(UpperCase) : UpperCase[i] = c]
    ELSE c

lower(token) == [i \in 1..Len(token) |-> LowerChar(token[i])]

\* c in unidad
Contains(unidad, c) == \E i \in 1..Len(unidad) : unidad[i] = c

\* datetime values of the proleptic Gregorian calendar.
datetime(year, month, day) == [year |-> year, month |-> month, day |-> day]

IsLeap(year) == (year % 4 = 0 /\ year % 100 # 0) \/ year % 400 = 0

\* calendar.monthrange(year, month)[1]
monthrange(year, month) ==
    IF month = 2 THEN (IF IsLeap(year) THEN 29 ELSE 28)
    ELSE IF month \in {4, 6, 9, 11} THEN 30 ELSE 31

DaysBeforeYear(year) ==
    365 * (year - 1) + ((year - 1) \div 4) - ((year - 1) \div 100) + ((year - 1) \div 400)

RECURSIVE DaysBeforeMonth(_, _)
DaysBeforeMonth(year, month) ==
    IF month = 1 THEN 0 ELSE DaysBeforeMonth(year, month - 1) + monthrange(year, month - 1)

toordinal(dt) == DaysBeforeYear(dt.year) + DaysBeforeMonth(dt.year, dt.month) + dt.day

YearOfOrdinal(n) ==
    CHOOSE year \in (n \div 366)..((n \div 365) + 1) :
        DaysBeforeYear(year) < n /\ n <= DaysBeforeYear(year + 1)

MonthOfOrdinal(n, year) ==
    CHOOSE month \in 1..12 :
        /\ DaysBeforeMonth(year, month) < n - DaysBeforeYear(year)
        /\ n - DaysBeforeYear(year) <= DaysBeforeMonth(year, month) + monthrange(year, month)

DayOfOrdinal(n, year, month) == n - DaysBeforeYear(year) - DaysBeforeMonth(year, month)

InMonth(n, year) == datetime(year, MonthOfOrdinal(n, year), DayOfOrdinal(n, year, MonthOfOrdinal(n, year)))

fromordinal(n) == InMonth(n, YearOfOrdinal(n))

\* datetime.strptime(date_string, "%Y-%m-%d")
strptime(date_string) ==
    datetime(1000 * DigitOf(date_string[1]) + 100 * DigitOf(date_string[2])
                 + 10 * DigitOf(date_string[3]) + DigitOf(date_string[4]),
             10 * DigitOf(date_string[6]) + DigitOf(date_string[7]),
             10 * DigitOf(date_string[9]) + DigitOf(date_string[10]))

\* dt.strftime("%Y-%m-%d") for a year of four digits.
strftime(dt) ==
    <<DigitAt(dt.year, 1000), DigitAt(dt.year, 100), DigitAt(dt.year, 10), DigitAt(dt.year, 1), "-",
      DigitAt(dt.month, 10), DigitAt(dt.month, 1), "-", DigitAt(dt.day, 10), DigitAt(dt.day, 1)>>

Abs(n) == IF n < 0 THEN 0 - n ELSE n
Sign(n) == IF n < 0 THEN 0 - 1 ELSE 1
Min(a, b) == IF a <= b THEN a ELSE b

\* dateutil's relativedelta(years=, months=, days=) after its normalisation:
\* months beyond 11 are carried into years; weeks are days * 7.
relativedelta(years, months, days) ==
    IF Abs(months) > 11
    THEN [years |-> years + Sign(months) * (Abs(months) \div 12),
          months |-> Sign(months) * (Abs(months) % 12), days |-> days]
    ELSE [years |-> years, months |-> months, days |-> days]

\* Mutant: the day of month is kept, and a day the month does not have
\* runs over into the next month.
Replace_Overflow(year, month, day, days) == fromordinal(toordinal(datetime(year, month, 1)) + day - 1 - days)

\* The end of datetime - relativedelta: the day is clamped to the length of
\* the month reached, then the days are subtracted.
Replace(year, month, day, days) ==
    fromordinal(toordinal(datetime(year, month, Min(monthrange(year, month), day))) - days)

Carry(year, month, day, days) ==
    IF month > 12 THEN Replace(year + 1, month - 12, day, days)
    ELSE IF month < 1 THEN Replace(year - 1, month + 12, day, days)
    ELSE Replace(year, month, day, days)

\* fecha_dt - delta
MinusDelta(fecha_dt, delta) ==
    Carry(fecha_dt.year - delta.years, fecha_dt.month - delta.months, fecha_dt.day, delta.days)

\* Mutant: the unit letters are looked for in the token as written.
Unit_CaseSensitive(cantidad, token) ==
    IF Contains(token, "d") THEN Some(relativedelta(0, 0, cantidad))
    ELSE IF Contains(token, "w") THEN Some(relativedelta(0, 0, 7 * cantidad))
    ELSE IF Contains(token, "m") THEN Some(relativedelta(0, cantidad, 0))
    ELSE IF Contains(token, "y") THEN Some(relativedelta(cantidad, 0, 0))
    ELSE None

\* The if/elif chain on unidad = partes[1].lower(): the delta, or None when
\* NotValidIntervalError is raised.
Unit(cantidad, token) ==
    IF Contains(lower(token), "d") THEN Some(relativedelta(0, 0, cantidad))
    ELSE IF Contains(lower(token), "w") THEN Some(relativedelta(0, 0, 7 * cantidad))
    ELSE IF Contains(lower(token), "m") THEN Some(relativedelta(0, cantidad, 0))
    ELSE IF Contains(lower(token), "y") THEN Some(relativedelta(cantidad, 0, 0))
    ELSE None

\* What a call gives: the exception it raised and the value it returned.
Outcome(sig, value) == [sig |-> sig, value |-> value]

Subtracted(fecha_dt, delta) ==
    IF delta = None THEN Outcome("NotValidIntervalError", None)
    ELSE Outcome("none", Some(strftime(MinusDelta(fecha_dt, Val(delta)))))

restar_intervalo(fecha_str, partes) ==
    Subtracted(strptime(fecha_str), Unit(int(partes[1]), partes[2]))

\* --------------------------------------------------------------- Operation
Operation(type, cash_amount, stock_price, succesful, fecha, trigger) ==
    [type |-> type, cash_amount |-> cash_amount, stock_price |-> stock_price,
     succesful |-> succesful, fecha |-> fecha, trigger |-> trigger]

\* Operation.get_description: the text names the outcome, the type, the
\* trigger, the cash amount, the price and fecha of the operation.
get_description(operation) ==
    <<IF operation.succesful THEN "Succesful" ELSE "Unsuccesful", operation.type, operation.trigger,
      operation.cash_amount, operation.stock_price, operation.fecha>>

\* ---------------------------------------------------------------- Strategy
\* A call returns the new object state and the exception it raised.
Ret(s, sig) == [s |-> s, sig |-> sig]

StrategyInit(start, end, capital, sizing_type, manual_orders) ==
    [cls |-> "Strategy", start |-> start, end |-> end,
     initial_capital |-> capital, fiat |-> capital, stock |-> 0,
     profits |-> None, operations |-> <<>>, closed |-> FALSE,
     manual_orders_config |-> manual_orders, sizing_type |-> sizing_type]

CurrentSizing(s, override_sizing_type) ==
    IF override_sizing_type = "None" THEN s.sizing_type ELSE override_sizing_type

\* Mutant: the "current" branch sized on the initial capital.
calculate_order_amount_CurrentOnInitial(s, quantity, override_sizing_type) ==
    LET current_sizing == CurrentSizing(s, override_sizing_type)
    IN  IF current_sizing = "static" THEN quantity
        ELSE RoundHalfEven(s.initial_capital * quantity, 100)

\* _calculate_order_amount followed by the round(., 2) of its callers.
calculate_order_amount(s, quantity, override_sizing_type) ==
    LET current_sizing == CurrentSizing(s, override_sizing_type)
    IN  IF current_sizing = "static" THEN quantity
        ELSE IF current_sizing = "initial" THEN RoundHalfEven(s.initial_capital * quantity, 100)
        ELSE RoundHalfEven(s.fiat * quantity, 100)

\* fiat values f (cents, 0..199) for which the double-precision test
\* f/100 - (f+1)/100 > -0.01 is true, so that a buy of one cent more than
\* the available cash passes the sufficiency test.
FloatSlack == {2, 5, 7, 8, 10, 11, 14, 17, 20, 23, 28, 34, 40, 46, 56, 68,
               81, 93, 112, 137, 162, 187}

\* self.fiat - cash_amount > -0.01
FiatCovers(fiat, cash_amount) ==
    \/ cash_amount <= fiat
    \/ cash_amount = fiat + 1 /\ fiat \in FloatSlack

\* Mutant: buy without the one-cent dust threshold.
buy_NoDustThreshold(s, quantity, date, trigger, override_sizing_type) ==
    LET stock_price == ResolvePrice(date)
        cash_amount == calculate_order_amount(s, quantity, override_sizing_type)
    IN  IF stock_price = None THEN Ret(s, "none")
        ELSE IF FiatCovers(s.fiat, cash_amount)
        THEN Ret([s EXCEPT !.fiat = s.fiat - cash_amount,
                           !.stock = s.stock + StockFor(cash_amount, Val(stock_price)),
                           !.operations = Append(s.operations,
                               Operation("buy", cash_amount, Val(stock_price), TRUE, date, trigger))],
                 "none")
        ELSE Ret([s EXCEPT !.operations = Append(s.operations,
                               Operation("buy", cash_amount, Val(stock_price), FALSE, date, trigger))],
                 "NotEnoughCashError")

buy(s, quantity, date, trigger, override_sizing_type) ==
    LET stock_price == ResolvePrice(date)
        cash_amount == calculate_order_amount(s, quantity, override_sizing_type)
    IN  IF stock_price = None THEN Ret(s, "none")
        ELSE IF cash_amount >= 1
        THEN IF FiatCovers(s.fiat, cash_amount)
             THEN Ret([s EXCEPT !.fiat = s.fiat - cash_amount,
                                !.stock = s.stock + StockFor(cash_amount, Val(stock_price)),
                                !.operations = Append(s.operations,
                                    Operation("buy", cash_amount, Val(stock_price), TRUE, date, trigger))],
                      "none")
             ELSE Ret([s EXCEPT !.operations = Append(s.operations,
                                    Operation("buy", cash_amount, Val(stock_price), FALSE, date, trigger))],
                      "NotEnoughCashError")
        ELSE Ret(s, "none")

buy_all(s, date, trigger) ==
    LET stock_price == ResolvePrice(date)
    IN  IF stock_price = None THEN s
        ELSE IF s.fiat > 0
        THEN [s EXCEPT !.fiat = 0,
                       !.stock = s.stock + StockFor(s.fiat, Val(stock_price)),
                       !.operations = Append(s.operations,
                           Operation("buy", s.fiat, Val(stock_price), TRUE, date, trigger))]
        ELSE s

\* The three branches of sell's sizing switch.
SellCashAmount(s, quantity, stock_price, override_sizing_type) ==
    IF CurrentSizing(s, override_sizing_type) = "initial"
    THEN PositionValue(s.stock, stock_price, quantity)
    ELSE calculate_order_amount(s, quantity, override_sizing_type)

\* Mutant: a tolerance of one share instead of 1e-6.
StockCovers_ShareTolerance(stock, stock_amount) == stock - stock_amount >= 0 - StockUnit

\* self.stock - stock_amount >= -0.000001
StockCovers(stock, stock_amount) == stock - stock_amount >= 0 - 100

sell(s, quantity, date, trigger, override_sizing_type) ==
    LET stock_price == ResolvePrice(date)
    IN  IF stock_price = None THEN Ret(s, "none")
        ELSE LET cash_amount == SellCashAmount(s, quantity, Val(stock_price), override_sizing_type)
                 stock_amount == StockFor(cash_amount, Val(stock_price))
             IN  IF cash_amount >= 1
                 THEN IF StockCovers(s.stock, stock_amount)
                      THEN Ret([s EXCEPT !.fiat = s.fiat + cash_amount,
                                         !.stock = s.stock - stock_amount,
                                         !.operations = Append(s.operations,
                                             Operation("sell", cash_amount, Val(stock_price), TRUE, date, trigger))],
                               "none")
                      ELSE Ret([s EXCEPT !.operations = Append(s.operations,
                                             Operation("sell", cash_amount, Val(stock_price), FALSE, date, trigger))],
                               "NotEnoughStockError")
                 ELSE Ret(s, "none")

sell_all(s, date, trigger) ==
    LET stock_price == ResolvePrice(date)
    IN  IF stock_price = None THEN s
        ELSE IF s.stock > 0
        THEN LET cash_value == PositionValue(s.stock, Val(stock_price), 100)
             IN  [s EXCEPT !.fiat = s.fiat + cash_value,
                           !.stock = 0,
                           !.operations = Append(s.operations,
                               Operation("sell", cash_value, Val(stock_price), TRUE, date, trigger))]
        ELSE s

\* self.profits = round(self.fiat - self.initial_capital, 2); self.closed = True
SetClosed(t) == [t EXCEPT !.profits = Some(t.fiat - t.initial_capital), !.closed = TRUE]

\* Mutant: close_trade without the closed guard.
close_trade_Unguarded(s, date, trigger) ==
    LET t == sell_all(s, date, trigger)
    IN  [t EXCEPT !.profits = Some(t.fiat - t.initial_capital), !.closed = TRUE]

close_trade(s, date, trigger) ==
    IF ~s.closed THEN SetClosed(sell_all(s, date, trigger)) ELSE s

\* Strategy.get_profit: the profit, or the exception raised.
get_profit(s) ==
    IF s.profits # None THEN [value |-> Val(s.profits), sig |-> "none"]
    ELSE [value |-> 0, sig |-> "TradeNotClosed"]

\* Strategy.get_current_capital: the cash alone when the date has no row,
\* else round(fiat + stock * price, 2). MultiBoundedStrategy does not
\* override it.
get_current_capital(s, date) ==
    IF get_price_in(date) = None THEN s.fiat
    ELSE s.fiat + PositionValue(s.stock, Val(get_price_in(date)), 100)

\* One manual order of Strategy.check_and_do, with its try/except.
DoOrder(s, order, date) ==
    IF order.date # date THEN s
    ELSE IF order.type = "buy" THEN buy(s, order.amount, date, "manual_order", s.sizing_type).s
    ELSE IF order.type = "buy_all" THEN buy_all(s, date, "manual_order")
    ELSE IF order.type = "sell" THEN sell(s, order.amount, date, "manual_order", s.sizing_type).s
    ELSE IF order.type = "sell_all" THEN sell_all(s, date, "manual_order")
    ELSE s

RECURSIVE DoOrders(_, _, _)
DoOrders(s, orders, date) ==
    IF orders = <<>> THEN s
    ELSE DoOrders(DoOrder(s, Head(orders), date), Tail(orders), date)

check_and_do(s, date) == DoOrders(s, s.manual_orders_config, date)

\* --------------------------------------------------------- BoundedStrategy
\* The first trading day on or after start, or start itself when there is none.
AdvanceStart(start) ==
    IF start \in DOMAIN sf THEN start
    ELSE LET valid_dates == {d \in DOMAIN sf : d >= start}
         IN  IF valid_dates # {} THEN CHOOSE d \in valid_dates : \A e \in valid_dates : d <= e
             ELSE start

\* An exit level in hundredths of a cent: entry_price * (1 + v) for "%",
\* entry_price + v otherwise, v standing for the Python float v/100.
ExitLevel(entry_price, v, type) ==
    IF type = "%" THEN entry_price * (100 + v) ELSE (entry_price + v) * 100

\* The constructor once self.start is settled.
EnterAt(new_start, end, capital, stop_loss, take_profit, sl_type, tp_type, max_holding_period, entry_price) ==
    [cls |-> "BoundedStrategy",
     entry_price |-> entry_price,
     stop_loss |-> ExitLevel(entry_price, stop_loss, sl_type),
     take_profit |-> ExitLevel(entry_price, take_profit, tp_type),
     max_holding_period |-> max_holding_period]
    @@ buy_all(StrategyInit(new_start, end, capital, "static", <<>>), new_start, "initial_entry")

BoundedStrategyInit(start, end, capital, stop_loss, take_profit, sl_type, tp_type, max_holding_period) ==
    EnterAt(AdvanceStart(start), end, capital, stop_loss, take_profit, sl_type, tp_type,
            max_holding_period, Val(ResolvePrice(AdvanceStart(start))))

\* Day number 0 of the model stands for the ISO date 2024-01-01.
DateString(date) == strftime(fromordinal(toordinal(datetime(2024, 1, 1)) + date))
DayNumber(date_string) == toordinal(strptime(date_string)) - toordinal(datetime(2024, 1, 1))

\* An interval string "<integer> <unit>", by its two tokens.
Interval(amount, unit) == <<amount, unit>>

\* subtract_interval(date, interval): the date string it returns, or the
\* NotValidIntervalError it raises.
subtract_interval(date, interval) == restar_intervalo(DateString(date), interval)

\* The time-stop branch of BoundedStrategy.check_and_do.
TimeStop(s1, date, cutoff_date) ==
    IF cutoff_date.sig # "none" THEN Ret(s1, cutoff_date.sig)
    ELSE IF DayNumber(Val(cutoff_date.value)) >= s1.start
    THEN Ret(close_trade(s1, date, "time_stop"), "StopChecking")
    ELSE Ret(s1, "none")

\* Mutant: the holding period is never looked at.
CheckExits_NoTimeStop(s1, date) ==
    LET current_price == get_price_in(date)
    IN  IF current_price = None THEN Ret(s1, "none")
        ELSE IF Val(current_price) * 100 <= s1.stop_loss
        THEN Ret(close_trade(s1, date, "stop_loss"), "StopChecking")
        ELSE IF Val(current_price) * 100 >= s1.take_profit
        THEN Ret(close_trade(s1, date, "take_profit"), "StopChecking")
        ELSE Ret(s1, "none")

\* Mutant: the exits sell the position themselves instead of going through
\* close_trade and its closed guard.
CheckExits_SellAll(s1, date) ==
    LET current_price == get_price_in(date)
    IN  IF current_price = None THEN Ret(s1, "none")
        ELSE IF Val(current_price) * 100 <= s1.stop_loss
        THEN Ret(SetClosed(sell_all(s1, date, "stop_loss")), "StopChecking")
        ELSE IF Val(current_price) * 100 >= s1.take_profit
        THEN Ret(SetClosed(sell_all(s1, date, "take_profit")), "StopChecking")
        ELSE IF s1.max_holding_period # None
        THEN TimeStop(s1, date, subtract_interval(date, Val(s1.max_holding_period)))
        ELSE Ret(s1, "none")

\* Mutant: the take-profit level is tested before the stop-loss level.
CheckExits_TakeProfitFirst(s1, date) ==
    LET current_price == get_price_in(date)
    IN  IF current_price = None THEN Ret(s1, "none")
        ELSE IF Val(current_price) * 100 >= s1.take_profit
        THEN Ret(close_trade(s1, date, "take_profit"), "StopChecking")
        ELSE IF Val(current_price) * 100 <= s1.stop_loss
        THEN Ret(close_trade(s1, date, "stop_loss"), "StopChecking")
        ELSE IF s1.max_holding_period # None
        THEN TimeStop(s1, date, subtract_interval(date, Val(s1.max_holding_period)))
        ELSE Ret(s1, "none")

\* BoundedStrategy.check_and_do after super().check_and_do(date).
CheckExits(s1, date) ==
    LET current_price == get_price_in(date)
    IN  IF current_price = None THEN Ret(s1, "none")
        ELSE IF Val(current_price) * 100 <= s1.stop_loss
        THEN Ret(close_trade(s1, date, "stop_loss"), "StopChecking")
        ELSE IF Val(current_price) * 100 >= s1.take_profit
        THEN Ret(close_trade(s1, date, "take_profit"), "StopChecking")
        ELSE IF s1.max_holding_period # None
        THEN TimeStop(s1, date, subtract_interval(date, Val(s1.max_holding_period)))
        ELSE Ret(s1, "none")

BoundedStrategy_check_and_do(s, date) == CheckExits(check_and_do(s, date), date)

\* ---------------------------------------------------- MultiBoundedStrategy
\* Operations on objects that own other objects take and return the heap.
HRet(h, sig) == [h |-> h, sig |-> sig]

\* list.remove: drops the first occurrence.
RECURSIVE Remove(_, _)
Remove(list, x) ==
    IF list = <<>> THEN <<>>
    ELSE IF Head(list) = x THEN Tail(list)
    ELSE <<Head(list)>> \o Remove(Tail(list), x)

\* Targets: a float price, or a (low, high) range, in cents.
FloatTarget(p) == [kind |-> "float", lo |-> p, hi |-> p]
RangeTarget(lo, hi) == [kind |-> "tuple", lo |-> lo, hi |-> hi]

\* sorted(target_prices, key = x or x[0], reverse = True), a stable sort.
RECURSIVE InsertTarget(_, _)
InsertTarget(t, sorted) ==
    IF sorted = <<>> THEN <<t>>
    ELSE IF Head(sorted).lo >= t.lo THEN <<Head(sorted)>> \o InsertTarget(t, Tail(sorted))
    ELSE <<t>> \o sorted

RECURSIVE SortTargets(_)
SortTargets(targets) ==
    IF targets = <<>> THEN <<>>
    ELSE InsertTarget(targets[Len(targets)], SortTargets(SubSeq(targets, 1, Len(targets) - 1)))

MultiBoundedStrategyInit(start, end, capital, target_prices, amount_per_trade, stop_loss, take_profit, sl_type, tp_type, max_holding_period, sizing_type) ==
    LET new_start == AdvanceStart(start)
        s0 == StrategyInit(new_start, end, capital, sizing_type, <<>>)
        has_dates == start \in DOMAIN sf \/ {d \in DOMAIN sf : d >= start} # {}
    IN  [cls |-> "MultiBoundedStrategy",
         initial_ref_price |-> IF has_dates THEN get_last_valid_price(new_start) ELSE None,
         target_prices |-> SortTargets(target_prices),
         amount_per_trade |-> amount_per_trade,
         stop_loss |-> stop_loss, take_profit |-> take_profit,
         sl_type |-> sl_type, tp_type |-> tp_type,
         max_holding_period |-> max_holding_period,
         active_strategies |-> <<>>, finished_strategies |-> <<>>,
         triggered_targets |-> {}] @@ s0

\* The allocation of _spawn_child times 100, in cents.
Allocation100(mg) ==
    IF mg.sizing_type = "initial" THEN mg.initial_capital * mg.amount_per_trade
    ELSE IF mg.sizing_type = "current" THEN mg.fiat * mg.amount_per_trade
    ELSE mg.amount_per_trade * 100

\* new_strat.operations[0].trigger = trigger_reason, when there is one.
Annotate(new_strat, trigger_reason) ==
    IF new_strat.operations # <<>>
    THEN [new_strat EXCEPT !.operations[1].trigger = trigger_reason]
    ELSE new_strat

\* The funded branch of _spawn_child, for the rounded allocation.
Fund(h, m, date, trigger_reason, allocation) ==
    Append([h EXCEPT ![m].fiat = @ - allocation,
                     ![m].active_strategies = Append(@, Len(h) + 1)],
           Annotate(BoundedStrategyInit(date, h[m].end, allocation, h[m].stop_loss, h[m].take_profit,
                                        h[m].sl_type, h[m].tp_type, h[m].max_holding_period),
                    trigger_reason))

MultiBoundedStrategy_spawn_child(h, m, date, trigger_reason) ==
    IF Allocation100(h[m]) < 100 THEN h
    ELSE IF h[m].fiat * 100 >= Allocation100(h[m])
    THEN Fund(h, m, date, trigger_reason, RoundHalfEven(Allocation100(h[m]), 100))
    ELSE h

\* The condition of _check_trigger for one target.
ConditionMet(mg, target, current_price) ==
    IF target.kind = "float"
    THEN \/ target.lo < Val(mg.initial_ref_price) /\ current_price <= target.lo
         \/ target.lo > Val(mg.initial_ref_price) /\ current_price >= target.lo
    ELSE target.lo <= current_price /\ current_price <= target.hi

\* Mutant: a target that fired is not recorded.
AddTriggered_Forgets(h1, m, target) == h1

\* self.triggered_targets.add(target)
AddTriggered(h1, m, target) == [h1 EXCEPT ![m].triggered_targets = @ \cup {target}]

RECURSIVE CheckTargets(_, _, _, _, _)
CheckTargets(h, m, targets, date, current_price) ==
    IF targets = <<>> THEN h
    ELSE IF Head(targets) \notin h[m].triggered_targets /\ ConditionMet(h[m], Head(targets), current_price)
    THEN CheckTargets(AddTriggered(MultiBoundedStrategy_spawn_child(h, m, date, "Static target hit"),
                                   m, Head(targets)),
                      m, Tail(targets), date, current_price)
    ELSE CheckTargets(h, m, Tail(targets), date, current_price)

MultiBoundedStrategy_check_trigger(h, m, date) ==
    IF get_price_in(date) = None THEN h
    ELSE CheckTargets(h, m, h[m].target_prices, date, Val(get_price_in(date)))

\* Mutant: a finished child's cash is not returned to the pool.
MultiBoundedStrategy_Retire_KeepsCash(h, m, strat) ==
    [h EXCEPT ![m].finished_strategies = Append(@, strat),
              ![m].active_strategies = Remove(@, strat)]

\* Mutant: the manager rewrites the trigger of the entry of a child it
\* retires.
MultiBoundedStrategy_Retire_Relabels(h, m, strat) ==
    [h EXCEPT ![m].finished_strategies = Append(@, strat),
              ![m].active_strategies = Remove(@, strat),
              ![m].fiat = @ + h[strat].fiat,
              ![strat].operations[1].trigger = "finished"]

\* The except clause of the manager: the child moves to the finished list
\* and its cash returns to the pool.
MultiBoundedStrategy_Retire(h, m, strat) ==
    [h EXCEPT ![m].finished_strategies = Append(@, strat),
              ![m].active_strategies = Remove(@, strat),
              ![m].fiat = @ + h[strat].fiat]

\* The loop of the manager's check_and_do over a copy of its active list;
\* r is the outcome of strat.check_and_do(date) for the head of strats.
RECURSIVE MultiBoundedStrategy_TickChildren(_, _, _, _)
RECURSIVE MultiBoundedStrategy_AfterChild(_, _, _, _, _)
MultiBoundedStrategy_AfterChild(h, m, strats, date, r) ==
    IF r.sig \in {"StopChecking", "NotEnoughStockError"}
    THEN MultiBoundedStrategy_TickChildren(
             MultiBoundedStrategy_Retire([h EXCEPT ![Head(strats)] = r.s], m, Head(strats)),
             m, Tail(strats), date)
    ELSE IF r.sig = "none"
    THEN MultiBoundedStrategy_TickChildren([h EXCEPT ![Head(strats)] = r.s], m, Tail(strats), date)
    ELSE HRet([h EXCEPT ![Head(strats)] = r.s], r.sig)

MultiBoundedStrategy_TickChildren(h, m, strats, date) ==
    IF strats = <<>> THEN HRet(h, "none")
    ELSE MultiBoundedStrategy_AfterChild(h, m, strats, date,
             BoundedStrategy_check_and_do(h[Head(strats)], date))

\* The children loop on the heap left by _check_trigger.
MultiBoundedStrategy_TickTriggered(h1, m, date) ==
    MultiBoundedStrategy_TickChildren(h1, m, h1[m].active_strategies, date)

\* Mutant: the children are ticked before the triggers are looked at.
MultiBoundedStrategy_Manage_ChildrenFirst(h0, m, date) ==
    IF get_price_in(date) = None THEN HRet(h0, "none")
    ELSE IF MultiBoundedStrategy_TickTriggered(h0, m, date).sig # "none"
    THEN MultiBoundedStrategy_TickTriggered(h0, m, date)
    ELSE HRet(MultiBoundedStrategy_check_trigger(MultiBoundedStrategy_TickTriggered(h0, m, date).h, m, date),
              "none")

\* The manager's check_and_do after super().check_and_do(date).
MultiBoundedStrategy_Manage(h0, m, date) ==
    IF get_price_in(date) = None THEN HRet(h0, "none")
    ELSE MultiBoundedStrategy_TickTriggered(MultiBoundedStrategy_check_trigger(h0, m, date), m, date)

MultiBoundedStrategy_check_and_do(h, m, date) ==
    MultiBoundedStrategy_Manage([h EXCEPT ![m] = check_and_do(h[m], date)], m, date)

\* Mutant: close_trade lists the closed child without taking its cash.
Reclaim_ListOnly(h1, p, strat) == [h1 EXCEPT ![p].finished_strategies = Append(@, strat)]

\* self.fiat += strat.fiat; self.finished_strategies.append(strat)
Reclaim(h1, p, strat) ==
    [h1 EXCEPT ![p].fiat = @ + h1[strat].fiat,
               ![p].finished_strategies = Append(@, strat)]

RECURSIVE MultiBoundedStrategy_CloseChildren(_, _, _, _, _)
MultiBoundedStrategy_CloseChildren(h, m, strats, date, trigger) ==
    IF strats = <<>> THEN h
    ELSE IF ~h[Head(strats)].closed
    THEN MultiBoundedStrategy_CloseChildren(
             Reclaim([h EXCEPT ![Head(strats)] = close_trade(@, date, trigger)], m, Head(strats)),
             m, Tail(strats), date, trigger)
    ELSE MultiBoundedStrategy_CloseChildren(h, m, Tail(strats), date, trigger)

\* The end of close_trade of the manager and of the composite: the active
\* list is emptied, profits computed, closed set.
FinishClose(h1, p) ==
    [h1 EXCEPT ![p].active_strategies = <<>>,
               ![p].profits = Some(h1[p].fiat - h1[p].initial_capital),
               ![p].closed = TRUE]

\* Mutant: close_trade of the manager leaves its active children alone.
MultiBoundedStrategy_close_trade_SkipsChildren(h, m, date, trigger) == FinishClose(h, m)

MultiBoundedStrategy_close_trade(h, m, date, trigger) ==
    FinishClose(MultiBoundedStrategy_CloseChildren(h, m, h[m].active_strategies, date, trigger), m)

\* ------------------------------------------------------------- BuyStrategy
BuyStrategyInit(start, end, capital, amount_per_trade, threshold, sizing_type) ==
    [StrategyInit(start, end, capital, sizing_type, <<>>) EXCEPT !.cls = "BuyStrategy"]
    @@ [threshold |-> threshold, amount_per_trade |-> amount_per_trade]

\* The condition of the automatic buy: inside the range for a tuple
\* threshold, equal to the threshold for a float.
BuyStrategy_Triggered(s1, date) ==
    /\ s1.start <= date /\ date < s1.end
    /\ get_price_in(date) # None
    /\ IF s1.threshold.kind = "float" THEN Val(get_price_in(date)) = s1.threshold.lo
       ELSE s1.threshold.lo <= Val(get_price_in(date)) /\ Val(get_price_in(date)) <= s1.threshold.hi

\* The end of BuyStrategy.check_and_do: an exception of buy leaves the
\* method, otherwise StopChecking is raised from the end date on.
BuyStrategy_AfterBuy(r, date) ==
    IF r.sig # "none" THEN r
    ELSE IF date >= r.s.end THEN Ret(r.s, "StopChecking")
    ELSE r

\* BuyStrategy.check_and_do after super().check_and_do(date).
BuyStrategy_Auto(s1, date) ==
    BuyStrategy_AfterBuy(IF BuyStrategy_Triggered(s1, date)
                         THEN buy(s1, s1.amount_per_trade, date, "automatic_check", "None")
                         ELSE Ret(s1, "none"),
                         date)

BuyStrategy_check_and_do(s, date) == BuyStrategy_Auto(check_and_do(s, date), date)

\* ------------------------------------------------------------ SellStrategy
\* The constructor advances start to a trading day and buys with all the
\* capital.
SellStrategyInit(start, end, capital, amount_per_trade, threshold, sizing_type) ==
    buy_all([StrategyInit(AdvanceStart(start), end, capital, sizing_type, <<>>) EXCEPT !.cls = "SellStrategy"]
                @@ [threshold |-> threshold, amount_per_trade |-> amount_per_trade],
            AdvanceStart(start), "initial_restock")

SellStrategy_Triggered(s, date) ==
    /\ s.start <= date /\ date < s.end
    /\ get_price_in(date) # None
    /\ IF s.threshold.kind = "float" THEN Val(get_price_in(date)) = s.threshold.lo
       ELSE s.threshold.lo <= Val(get_price_in(date)) /\ Val(get_price_in(date)) <= s.threshold.hi

\* The end of check_and_do: an exception of sell leaves the method,
\* otherwise StopChecking is raised from the end date on.
SellStrategy_AfterSell(r, date) ==
    IF r.sig # "none" THEN r
    ELSE IF date >= r.s.end THEN Ret(r.s, "StopChecking")
    ELSE r

\* Mutant: the price range of the threshold is open at both ends.
SellStrategy_check_and_do_OpenRange(s, date) ==
    SellStrategy_AfterSell(IF /\ SellStrategy_Triggered(s, date)
                              /\ s.threshold.lo < Val(get_price_in(date))
                              /\ Val(get_price_in(date)) < s.threshold.hi
                           THEN sell(s, s.amount_per_trade, date, "automatic_check", "None")
                           ELSE Ret(s, "none"),
                           date)

\* SellStrategy.check_and_do: it does not call super().check_and_do(date).
SellStrategy_check_and_do(s, date) ==
    SellStrategy_AfterSell(IF SellStrategy_Triggered(s, date)
                           THEN sell(s, s.amount_per_trade, date, "automatic_check", "None")
                           ELSE Ret(s, "none"),
                           date)

\* ------------------------------------- DynamicBuyStrategy, DynamicSellStrategy
\* A threshold of v stands for the Python float v/100: a float, or a tuple
\* whose two entries come in the order given.
FloatThreshold(v) == [kind |-> "float", lo |-> v, hi |-> v]
TupleThreshold(first, second) == [kind |-> "tuple", lo |-> first, hi |-> second]

\* threshold <= -1, or threshold[0] <= -1 or threshold[1] <= -1
NotValidThreshold(threshold) ==
    IF threshold.kind = "float" THEN threshold.lo <= 0 - 100
    ELSE threshold.kind = "tuple" /\ (threshold.lo <= 0 - 100 \/ threshold.hi <= 0 - 100)

\* Mutant: only the first entry of the threshold is validated.
DynamicSellStrategyInit_FirstOnly(start, end, capital, amount_per_trade, threshold, trigger_lookback, sizing_type) ==
    IF threshold.lo <= 0 - 100 THEN Ret(None, "NotValidIntervalError")
    ELSE Ret([SellStrategyInit(start, end, capital, amount_per_trade, threshold, sizing_type)
                  EXCEPT !.cls = "DynamicSellStrategy"] @@ [trigger_lookback |-> trigger_lookback],
             "none")

\* The constructors: the object built, or None and the exception raised.
DynamicBuyStrategyInit(start, end, capital, amount_per_trade, threshold, trigger_lookback, sizing_type) ==
    IF NotValidThreshold(threshold) THEN Ret(None, "NotValidIntervalError")
    ELSE Ret([BuyStrategyInit(start, end, capital, amount_per_trade, threshold, sizing_type)
                  EXCEPT !.cls = "DynamicBuyStrategy"] @@ [trigger_lookback |-> trigger_lookback],
             "none")

DynamicSellStrategyInit(start, end, capital, amount_per_trade, threshold, trigger_lookback, sizing_type) ==
    IF NotValidThreshold(threshold) THEN Ret(None, "NotValidIntervalError")
    ELSE Ret([SellStrategyInit(start, end, capital, amount_per_trade, threshold, sizing_type)
                  EXCEPT !.cls = "DynamicSellStrategy"] @@ [trigger_lookback |-> trigger_lookback],
             "none")

Max(a, b) == IF a >= b THEN a ELSE b

\* Mutant: the projected range is taken in the order the entries were given.
Dynamic_Met_Unsorted(threshold, current_price, reference_price) ==
    IF threshold.kind = "float"
    THEN \/ threshold.lo > 0 /\ current_price * 100 >= (100 + threshold.lo) * reference_price
         \/ threshold.lo < 0 /\ current_price * 100 <= (100 + threshold.lo) * reference_price
    ELSE /\ (100 + threshold.lo) * reference_price <= current_price * 100
         /\ current_price * 100 <= (100 + threshold.hi) * reference_price

\* The comparison of the current price with the projected reference price,
\* in hundredths of a cent.
Dynamic_Met(threshold, current_price, reference_price) ==
    IF threshold.kind = "float"
    THEN \/ threshold.lo > 0 /\ current_price * 100 >= (100 + threshold.lo) * reference_price
         \/ threshold.lo < 0 /\ current_price * 100 <= (100 + threshold.lo) * reference_price
    ELSE /\ Min((100 + threshold.lo) * reference_price, (100 + threshold.hi) * reference_price)
                <= current_price * 100
         /\ current_price * 100
                <= Max((100 + threshold.lo) * reference_price, (100 + threshold.hi) * reference_price)

Dynamic_Triggered(s, date, current_price, reference_price) ==
    /\ s.start <= date /\ date < s.end
    /\ current_price # None
    /\ reference_price # None
    /\ Dynamic_Met(s.threshold, Val(current_price), Val(reference_price))

DynamicBuyStrategy_Auto(s, date, reference_price) ==
    BuyStrategy_AfterBuy(IF Dynamic_Triggered(s, date, get_price_in(date), reference_price)
                         THEN buy(s, s.amount_per_trade, date, "dynamic_check", "None")
                         ELSE Ret(s, "none"),
                         date)

DynamicSellStrategy_Auto(s, date, reference_price) ==
    SellStrategy_AfterSell(IF Dynamic_Triggered(s, date, get_price_in(date), reference_price)
                           THEN sell(s, s.amount_per_trade, date, "dynamic_check", "None")
                           ELSE Ret(s, "none"),
                           date)

\* get_last_valid_price(subtract_interval(date, self.trigger_lookback)), or
\* the exception subtract_interval raised.
Reference(lookback_date) ==
    IF lookback_date.sig # "none" THEN Outcome(lookback_date.sig, None)
    ELSE Outcome("none", get_last_valid_price(DayNumber(Val(lookback_date.value))))

DynamicBuyStrategy_WithReference(s, date, reference) ==
    IF reference.sig # "none" THEN Ret(s, reference.sig)
    ELSE DynamicBuyStrategy_Auto(s, date, reference.value)

DynamicSellStrategy_WithReference(s, date, reference) ==
    IF reference.sig # "none" THEN Ret(s, reference.sig)
    ELSE DynamicSellStrategy_Auto(s, date, reference.value)

\* Neither check_and_do calls super().check_and_do(date).
DynamicBuyStrategy_check_and_do(s, date) ==
    DynamicBuyStrategy_WithReference(s, date, Reference(subtract_interval(date, s.trigger_lookback)))

DynamicSellStrategy_check_and_do(s, date) ==
    DynamicSellStrategy_WithReference(s, date, Reference(subtract_interval(date, s.trigger_lookback)))

\* ----------------------------------------------------------- MultiStrategy
MinOf(S) == CHOOSE x \in S : \A y \in S : x <= y
RECURSIVE SumCapital(_, _)
SumCapital(h, strats) ==
    IF strats = <<>> THEN 0
    ELSE h[Head(strats)].initial_capital + SumCapital(h, Tail(strats))

MultiStrategyInit(h, strats) ==
    [cls |-> "MultiStrategy",
     active_strategies |-> strats, finished_strategies |-> <<>>,
     start |-> MinOf({h[strats[i]].start : i \in 1..Len(strats)}),
     end |-> 0 - MinOf({0 - h[strats[i]].end : i \in 1..Len(strats)}),
     fiat |-> 0,
     initial_capital |-> SumCapital(h, strats),
     profits |-> Some(0), closed |-> FALSE]

\* Mutant: a composite operand of + is taken whole, as one sub-strategy.
get_sub_strats_Nested(h, s) == <<s>>

\* Strategy.__add__: the nested get_sub_strats, and the new composite.
get_sub_strats(h, s) ==
    IF h[s].cls = "MultiStrategy" THEN h[s].active_strategies ELSE <<s>>

Strategy_add(h, self, strat2) ==
    Append(h, MultiStrategyInit(h, get_sub_strats(h, self) \o get_sub_strats(h, strat2)))

\* strat.check_and_do(date) and strat.close_trade(date, trigger) on a
\* sub-strategy, dispatched on its class.
InHeap(h, strat, r) == HRet([h EXCEPT ![strat] = r.s], r.sig)

Sub_check_and_do(h, strat, date) ==
    IF h[strat].cls = "MultiBoundedStrategy" THEN MultiBoundedStrategy_check_and_do(h, strat, date)
    ELSE IF h[strat].cls = "BoundedStrategy"
    THEN InHeap(h, strat, BoundedStrategy_check_and_do(h[strat], date))
    ELSE IF h[strat].cls = "BuyStrategy"
    THEN InHeap(h, strat, BuyStrategy_check_and_do(h[strat], date))
    ELSE IF h[strat].cls = "SellStrategy"
    THEN InHeap(h, strat, SellStrategy_check_and_do(h[strat], date))
    ELSE IF h[strat].cls = "DynamicBuyStrategy"
    THEN InHeap(h, strat, DynamicBuyStrategy_check_and_do(h[strat], date))
    ELSE IF h[strat].cls = "DynamicSellStrategy"
    THEN InHeap(h, strat, DynamicSellStrategy_check_and_do(h[strat], date))
    ELSE HRet([h EXCEPT ![strat] = check_and_do(h[strat], date)], "none")

Sub_close_trade(h, strat, date, trigger) ==
    IF h[strat].cls = "MultiBoundedStrategy" THEN MultiBoundedStrategy_close_trade(h, strat, date, trigger)
    ELSE [h EXCEPT ![strat] = close_trade(h[strat], date, trigger)]

\* The except clause of the composite once the sub-strategy is closed.
MultiStrategy_Retire(h1, c, strat) ==
    [h1 EXCEPT ![c].fiat = @ + h1[strat].fiat,
               ![c].finished_strategies = Append(@, strat),
               ![c].active_strategies = Remove(@, strat)]

\* if not strat.closed: strat.close_trade(date, trigger="sub_strategy_finish")
CloseIfOpen(h, strat, date) ==
    IF ~h[strat].closed THEN Sub_close_trade(h, strat, date, "sub_strategy_finish") ELSE h

\* The loop of the composite's check_and_do over a copy of its active list;
\* r is the outcome of strat.check_and_do(date) for the head of strats.
RECURSIVE MultiStrategy_TickChildren(_, _, _, _)
RECURSIVE MultiStrategy_AfterChild(_, _, _, _, _)
\* Mutant: the composite catches what the manager catches, not
\* NotEnoughCashError.
MultiStrategy_AfterChild_NoCashCatch(h, c, strats, date, r) ==
    IF r.sig \in {"StopChecking", "NotEnoughStockError"}
    THEN MultiStrategy_TickChildren(
             MultiStrategy_Retire(CloseIfOpen(r.h, Head(strats), date), c, Head(strats)),
             c, Tail(strats), date)
    ELSE IF r.sig = "none"
    THEN MultiStrategy_TickChildren(r.h, c, Tail(strats), date)
    ELSE r

MultiStrategy_AfterChild(h, c, strats, date, r) ==
    IF r.sig \in {"StopChecking", "NotEnoughStockError", "NotEnoughCashError"}
    THEN MultiStrategy_TickChildren(
             MultiStrategy_Retire(CloseIfOpen(r.h, Head(strats), date), c, Head(strats)),
             c, Tail(strats), date)
    ELSE IF r.sig = "none"
    THEN MultiStrategy_TickChildren(r.h, c, Tail(strats), date)
    ELSE r

MultiStrategy_TickChildren(h, c, strats, date) ==
    IF strats = <<>> THEN HRet(h, "none")
    ELSE MultiStrategy_AfterChild(h, c, strats, date, Sub_check_and_do(h, Head(strats), date))

MultiStrategy_check_and_do(h, c, date) ==
    MultiStrategy_TickChildren(h, c, h[c].active_strategies, date)

RECURSIVE MultiStrategy_CloseChildren(_, _, _, _, _)
MultiStrategy_CloseChildren(h, c, strats, date, trigger) ==
    IF strats = <<>> THEN h
    ELSE IF ~h[Head(strats)].closed
    THEN MultiStrategy_CloseChildren(
             Reclaim(Sub_close_trade(h, Head(strats), date, trigger), c, Head(strats)),
             c, Tail(strats), date, trigger)
    ELSE MultiStrategy_CloseChildren(h, c, Tail(strats), date, trigger)

MultiStrategy_close_trade(h, c, date, trigger) ==
    FinishClose(MultiStrategy_CloseChildren(h, c, h[c].active_strategies, date, trigger), c)

\* Mutant: the composite tests its profits, like the base class.
MultiStrategy_get_profit_OnProfits(s) ==
    IF s.profits # None THEN [value |-> Val(s.profits), sig |-> "none"]
    ELSE [value |-> 0, sig |-> "TradeNotClosed"]

MultiStrategy_get_profit(s) ==
    IF s.closed THEN [value |-> Val(s.profits), sig |-> "none"]
    ELSE [value |-> 0, sig |-> "TradeNotClosed"]

\* MultiStrategy.get_current_capital: the sum of get_current_capital over
\* the active sub-strategies, none of which is a composite.
RECURSIVE ActiveCapital(_, _, _)
ActiveCapital(h, strats, date) ==
    IF strats = <<>> THEN 0
    ELSE get_current_capital(h[Head(strats)], date) + ActiveCapital(h, Tail(strats), date)

MultiStrategy_get_current_capital(h, c, date) ==
    h[c].fiat + ActiveCapital(h, h[c].active_strategies, date)

\* get_all_operations of MultiStrategy and of MultiBoundedStrategy (the two
\* bodies are the same): the logs of the active then the finished
\* sub-strategies, one after the other.
RECURSIVE Extend(_, _)
Extend(h, all_strats) ==
    IF all_strats = <<>> THEN <<>>
    ELSE h[Head(all_strats)].operations \o Extend(h, Tail(all_strats))

\* list.sort(key = lambda x: x.date), a stable sort; an Operation has the
\* attribute fecha and no attribute date, so the key raises AttributeError
\* on the first element.
RECURSIVE InsertByDate(_, _)
InsertByDate(operation, sorted) ==
    IF sorted = <<>> THEN <<operation>>
    ELSE IF Head(sorted).date <= operation.date
    THEN <<Head(sorted)>> \o InsertByDate(operation, Tail(sorted))
    ELSE <<operation>> \o sorted

RECURSIVE StableSort(_)
StableSort(all_operations) ==
    IF all_operations = <<>> THEN <<>>
    ELSE InsertByDate(all_operations[Len(all_operations)],
                      StableSort(SubSeq(all_operations, 1, Len(all_operations) - 1)))

SortByDate(all_operations) ==
    IF \E k \in 1..Len(all_operations) : "date" \notin DOMAIN all_operations[k]
    THEN [value |-> <<>>, sig |-> "AttributeError"]
    ELSE [value |-> StableSort(all_operations), sig |-> "none"]

Descriptions(sorted) ==
    [value |-> [k \in 1..Len(sorted.value) |-> get_description(sorted.value[k])], sig |-> sorted.sig]

get_all_operations(h, p) ==
    Descriptions(SortByDate(Extend(h, h[p].active_strategies \o h[p].finished_strategies)))

\* ------------------------------------------------------------------ driver
\* The driver owns one object (root) and calls its methods.
\* The record of a driver call: the method, the branch it took (for an
\* order "no_price": no price resolvable, "dust": amount below one cent,
\* "filled" or "rejected"; for close_trade "open" or "closed", the state it
\* found; "-" otherwise) and the signal it raised.
Call(op, path, sig) == [op |-> op, path |-> path, sig |-> sig]

OrderPath(date, r) ==
    IF ResolvePrice(date) = None THEN "no_price"
    ELSE IF r.sig # "none" THEN "rejected"
    ELSE IF r.s = heap[root] THEN "dust"
    ELSE "filled"

\* The model stops growing a log beyond MaxOps and a balance beyond MaxMoney.
Bounded(s) == Len(s.operations) <= MaxOps /\ s.fiat <= MaxMoney

\* The threshold strategies trade by themselves on every tick: their logs
\* may grow to MaxTrades.
LogLimit(cls) ==
    IF cls \in {"BuyStrategy", "SellStrategy", "DynamicBuyStrategy", "DynamicSellStrategy"}
    THEN MaxTrades ELSE MaxOps

HeapBounded(h) ==
    \A i \in 1..Len(h) :
        /\ h[i].fiat <= MaxMoney
        /\ "operations" \in DOMAIN h[i] => Len(h[i].operations) <= LogLimit(h[i].cls)

Self == heap[root]

\* The default of the trigger parameter of close_trade.
DefaultTrigger(s) ==
    IF s.cls = "MultiBoundedStrategy" THEN "parent_force_close" ELSE "force_close"

\* Method dispatch on the class of the driven object.
Obj_check_and_do(h, id, date) ==
    IF h[id].cls = "MultiStrategy" THEN MultiStrategy_check_and_do(h, id, date)
    ELSE Sub_check_and_do(h, id, date)

Obj_close_trade(h, id, date, trigger) ==
    IF h[id].cls = "MultiStrategy" THEN MultiStrategy_close_trade(h, id, date, trigger)
    ELSE Sub_close_trade(h, id, date, trigger)

Obj_get_profit(s) ==
    IF s.cls = "MultiStrategy" THEN MultiStrategy_get_profit(s) ELSE get_profit(s)

Obj_get_current_capital(h, id, date) ==
    IF h[id].cls = "MultiStrategy" THEN MultiStrategy_get_current_capital(h, id, date)
    ELSE get_current_capital(h[id], date)

\* ----------------------------------------------------------------- execute
\* The loop of execute over the dates of self.sf.index between start and end.
\* It stops at the first signal check_and_do lets out.
RECURSIVE IndexLoop(_, _, _, _)
IndexStep(r, id, date, end) ==
    IF r.sig = "none" THEN IndexLoop(r.h, id, date + 1, end) ELSE r

IndexLoop(h, id, date, end) ==
    IF date > end THEN HRet(h, "none")
    ELSE IF date \notin DOMAIN sf THEN IndexLoop(h, id, date + 1, end)
    ELSE IndexStep(Sub_check_and_do(h, id, date), id, date, end)

\* Strategy.execute and MultiBoundedStrategy.execute after the loop.
Strategy_AfterLoop(r, id) ==
    IF r.sig = "none" THEN HRet(Sub_close_trade(r.h, id, r.h[id].end, DefaultTrigger(r.h[id])), "none")
    ELSE r

Strategy_execute(h, id) == Strategy_AfterLoop(IndexLoop(h, id, h[id].start, h[id].end), id)

\* BoundedStrategy.execute after the loop: StopChecking and
\* NotEnoughStockError break it, any other exception leaves execute.
BoundedStrategy_AfterLoop(r, id) ==
    IF r.sig \notin {"none", "StopChecking", "NotEnoughStockError"} THEN r
    ELSE IF ~r.h[id].closed THEN HRet(Sub_close_trade(r.h, id, r.h[id].end, "force_close"), "none")
    ELSE HRet(r.h, "none")

BoundedStrategy_execute(h, id) ==
    BoundedStrategy_AfterLoop(IndexLoop(h, id, h[id].start, h[id].end), id)

\* MultiStrategy.execute: get_date_range gives every calendar day.
RECURSIVE CalendarLoop(_, _, _, _)
CalendarStep(r, c, date, end) ==
    IF r.sig = "none" THEN CalendarLoop(r.h, c, date + 1, end) ELSE r

CalendarLoop(h, c, date, end) ==
    IF date > end THEN HRet(h, "none")
    ELSE CalendarStep(MultiStrategy_check_and_do(h, c, date), c, date, end)

MultiStrategy_AfterLoop(r, c) ==
    IF r.sig = "none"
    THEN HRet(MultiStrategy_close_trade(r.h, c, r.h[c].end, "force_close_global"), "none")
    ELSE r

MultiStrategy_execute(h, c) ==
    MultiStrategy_AfterLoop(CalendarLoop(h, c, h[c].start, h[c].end), c)

\* BuyStrategy.execute, inherited by DynamicBuyStrategy: every date of
\* self.sf.index is ticked; NotEnoughCashError buys with what is left and
\* breaks, StopChecking breaks, any other exception leaves execute.
RECURSIVE BuyStrategy_Loop(_, _, _)
BuyStrategy_Step(r, id, date) ==
    IF r.sig = "NotEnoughCashError"
    THEN HRet([r.h EXCEPT ![id] = buy_all(r.h[id], date, "last_automatic_check")], "none")
    ELSE IF r.sig = "StopChecking" THEN HRet(r.h, "none")
    ELSE IF r.sig # "none" THEN r
    ELSE BuyStrategy_Loop(r.h, id, date + 1)

BuyStrategy_Loop(h, id, date) ==
    IF date > MaxDate THEN HRet(h, "none")
    ELSE IF date \notin DOMAIN sf THEN BuyStrategy_Loop(h, id, date + 1)
    ELSE BuyStrategy_Step(Sub_check_and_do(h, id, date), id, date)

\* Mutant: execute without the buy of the remaining cash.
BuyStrategy_execute_NoBuyAll(h, id) ==
    Strategy_AfterLoop(HRet(IndexLoop(h, id, first_available_date, MaxDate).h, "none"), id)

BuyStrategy_execute(h, id) == Strategy_AfterLoop(BuyStrategy_Loop(h, id, first_available_date), id)

\* SellStrategy.execute, inherited by DynamicSellStrategy:
\* NotEnoughStockError closes the trade on that date and breaks.
RECURSIVE SellStrategy_Loop(_, _, _)
SellStrategy_Step(r, id, date) ==
    IF r.sig = "NotEnoughStockError"
    THEN HRet([r.h EXCEPT ![id] = close_trade(r.h[id], date, "force_close")], "none")
    ELSE IF r.sig = "StopChecking" THEN HRet(r.h, "none")
    ELSE IF r.sig # "none" THEN r
    ELSE SellStrategy_Loop(r.h, id, date + 1)

SellStrategy_Loop(h, id, date) ==
    IF date > MaxDate THEN HRet(h, "none")
    ELSE IF date \notin DOMAIN sf THEN SellStrategy_Loop(h, id, date + 1)
    ELSE SellStrategy_Step(Sub_check_and_do(h, id, date), id, date)

SellStrategy_execute(h, id) == Strategy_AfterLoop(SellStrategy_Loop(h, id, first_available_date), id)

Obj_execute(h, id) ==
    IF h[id].cls = "MultiStrategy" THEN MultiStrategy_execute(h, id)
    ELSE IF h[id].cls = "BoundedStrategy" THEN BoundedStrategy_execute(h, id)
    ELSE IF h[id].cls \in {"BuyStrategy", "DynamicBuyStrategy"} THEN BuyStrategy_execute(h, id)
    ELSE IF h[id].cls \in {"SellStrategy", "DynamicSellStrategy"} THEN SellStrategy_execute(h, id)
    ELSE Strategy_execute(h, id)

\* Constructor calls of the driver.
SwingSeries == (1 :> 30) @@ (2 :> 26) @@ (3 :> 34)
TargetConfigs ==
    {<<FloatTarget(28), FloatTarget(32)>>, <<FloatTarget(32), RangeTarget(25, 27)>>, <<RangeTarget(25, 31)>>}
ManagerSizings == {<<"static", 4>>, <<"static", 6>>, <<"initial", 40>>}

\* Stop-loss and take-profit percentages of a driven BoundedStrategy; the
\* second pair puts the stop above the entry and the target below it, so
\* that both exits qualify at once.
ExitConfigs == {<<0 - 10, 20>>, <<10, 0 - 20>>, <<0 - 20, 10>>}
HoldingPeriods ==
    {None, Some(Interval(<<"1">>, <<"d", "a", "y", "s">>)), Some(Interval(<<"2">>, <<"d", "a", "y", "s">>))}

NewManager(target_prices, sizing) ==
    MultiBoundedStrategyInit(1, MaxDate, 10, target_prices, sizing[2], 0 - 10, 20, "%", "%",
                             None, sizing[1])
NewBounded == BoundedStrategyInit(0, 2, 10, 0 - 10, 10, "%", "%", None)
NewLeaf == StrategyInit(1, MaxDate, 10, "static", <<Order("buy", 2, 4)>>)

InitStrategy ==
    /\ sf = GapSeries
    /\ \E capital \in Capitals, sizing_type \in SizingTypes, manual_orders \in ManualConfigs :
           heap = <<StrategyInit(1, MaxDate, capital, sizing_type, manual_orders)>>
    /\ root = 1

InitManager ==
    /\ sf = SwingSeries
    /\ \E target_prices \in TargetConfigs, sizing \in ManagerSizings :
           heap = <<NewManager(target_prices, sizing)>>
    /\ root = 1

InitComposite ==
    /\ sf = SwingSeries
    /\ \E first \in {NewLeaf} \cup {NewManager(t, <<"static", 4>>) : t \in TargetConfigs} :
           heap = <<first, NewBounded, MultiStrategyInit(<<first, NewBounded>>, <<1, 2>>)>>
    /\ root = 3

InitBounded ==
    /\ sf = SwingSeries
    /\ \E exits \in ExitConfigs, max_holding_period \in HoldingPeriods :
           heap = <<BoundedStrategyInit(1, MaxDate, 10, exits[1], exits[2], "%", "%", max_holding_period)>>
    /\ root = 1

Init ==
    /\ InitStrategy \/ InitManager \/ InitComposite \/ InitBounded
    /\ last = Call("init", "-", "none")
    /\ calc = None

Buy(quantity, date, override) ==
    LET r == buy(Self, quantity, date, "manual", override)
    IN  /\ Self.cls = "Strategy"
        /\ Bounded(r.s)
        /\ heap' = [heap EXCEPT ![root] = r.s]
        /\ last' = Call("buy", OrderPath(date, r), r.sig)
        /\ UNCHANGED <<sf, root, calc>>

BuyAll(date) ==
    LET t == buy_all(Self, date, "manual")
    IN  /\ Self.cls = "Strategy"
        /\ Bounded(t)
        /\ heap' = [heap EXCEPT ![root] = t]
        /\ last' = Call("buy_all", "-", "none")
        /\ UNCHANGED <<sf, root, calc>>

Sell(quantity, date, override) ==
    LET r == sell(Self, quantity, date, "manual", override)
    IN  /\ Self.cls = "Strategy"
        /\ Bounded(r.s)
        /\ heap' = [heap EXCEPT ![root] = r.s]
        /\ last' = Call("sell", OrderPath(date, r), r.sig)
        /\ UNCHANGED <<sf, root, calc>>

SellAll(date) ==
    LET t == sell_all(Self, date, "manual")
    IN  /\ Self.cls = "Strategy"
        /\ Bounded(t)
        /\ heap' = [heap EXCEPT ![root] = t]
        /\ last' = Call("sell_all", "-", "none")
        /\ UNCHANGED <<sf, root, calc>>

\* The driver takes the outcome r of a call on the driven object.
Take(r, op, path) ==
    /\ HeapBounded(r.h)
    /\ heap' = r.h
    /\ last' = Call(op, path, r.sig)
    /\ UNCHANGED <<sf, root, calc>>

CloseTrade(date, trigger) ==
    Take(HRet(Obj_close_trade(heap, root, date, trigger), "none"),
         "close_trade", IF Self.closed THEN "closed" ELSE "open")

CheckAndDo(date) == Take(Obj_check_and_do(heap, root, date), "check_and_do", "-")

Execute == Take(Obj_execute(heap, root), "execute", "-")

\* The strategies listed by the managers and composites ids of heap h.
Listed(s) ==
    IF s.cls \in {"MultiBoundedStrategy", "MultiStrategy"}
    THEN {s.active_strategies[k] : k \in 1..Len(s.active_strategies)}
         \cup {s.finished_strategies[k] : k \in 1..Len(s.finished_strategies)}
    ELSE {}

\* The strategies the driver can sum: those that are part of no sum yet.  A
\* composite whose children a later sum has taken is part of that sum.
Selectable ==
    {i \in 1..Len(heap) :
        /\ \A p \in 1..Len(heap) : i \notin Listed(heap[p])
        /\ heap[i].cls = "MultiStrategy" =>
               \A p \in (1..Len(heap)) \ {i} :
                   heap[p].cls = "MultiStrategy" => Listed(heap[p]) \cap Listed(heap[i]) = {}}

\* combined_strat = combined_strat + s: the driver evaluates self + strat2
\* on two strategies it has not run yet and goes on with the result.
Add(self, strat2) ==
    /\ self # strat2
    /\ last.op \in {"init", "add"}
    /\ Len(heap) < MaxObjects
    /\ heap' = Strategy_add(heap, self, strat2)
    /\ root' = Len(heap) + 1
    /\ last' = Call("add", "-", "none")
    /\ UNCHANGED <<sf, calc>>

Next ==
    \/ \E quantity \in Quantities, date \in CallDates, override \in Overrides : Buy(quantity, date, override)
    \/ \E date \in CallDates : BuyAll(date)
    \/ \E quantity \in Quantities, date \in CallDates, override \in Overrides : Sell(quantity, date, override)
    \/ \E date \in CallDates : SellAll(date)
    \/ \E date \in Dates, trigger \in CloseTriggers : CloseTrade(date, trigger)
    \/ \E date \in Dates : CheckAndDo(date)
    \/ Execute

Spec == Init /\ [][Next]_vars

\* The driver of combined strategies: it sums strategies it has built, then
\* runs the result.
NewExtra ==
    BoundedStrategyInit(2, MaxDate, 4, 0 - 20, 10, "%", "%", Some(Interval(<<"1">>, <<"d", "a", "y", "s">>)))
BuyerCapitals == {2, 4}
NewBuyer(capital) == BuyStrategyInit(1, 2, capital, 4, RangeTarget(25, 31), "static")

InitSum ==
    /\ sf = SwingSeries
    /\ \E first \in {NewLeaf, NewManager(<<FloatTarget(28), FloatTarget(32)>>, <<"static", 4>>)},
          capital \in BuyerCapitals :
           heap = <<first, NewBounded, MultiStrategyInit(<<first, NewBounded>>, <<1, 2>>),
                    NewExtra, NewBuyer(capital)>>
    /\ root = 3
    /\ last = Call("init", "-", "none")
    /\ calc = None

NextSum ==
    \/ \E self \in Selectable, strat2 \in Selectable : Add(self, strat2)
    \/ \E date \in Dates : CloseTrade(date, "force_close_global")
    \/ \E date \in Dates : CheckAndDo(date)
    \/ Execute

SpecSum == InitSum /\ [][NextSum]_vars

\* The driver of the threshold strategies: it constructs one strategy, may
\* assign it manual orders, then ticks it or runs it.
StaticThresholds == {FloatTarget(26), RangeTarget(25, 31), RangeTarget(26, 34)}
DynamicThresholds ==
    {FloatThreshold(20), FloatThreshold(0 - 10), FloatThreshold(0),
     TupleThreshold(0 - 20, 0 - 5), TupleThreshold(0 - 5, 0 - 20),
     FloatThreshold(0 - 100), TupleThreshold(10, 0 - 100), TupleThreshold(0 - 150, 10)}
Lookbacks == {Interval(<<"1">>, <<"d", "a", "y">>), Interval(<<"1">>, <<"h", "o", "u", "r">>)}
RuleCapitals == {2, 6}
RuleStarts == {1, 2}
RuleOrders == {<<Order("buy", 2, 40), Order("buy", 2, 1)>>}
RulePeriods == {Some(Interval(<<"1">>, <<"d", "a", "y">>)), Some(Interval(<<"1">>, <<"h", "o", "u", "r">>))}

\* The managers built: a pool of 6 funds one child of 4 and a second one only
\* with the cash a finished child returns; the second pair of exits puts the
\* stop above the entry, so that a child leaves on the day it is spawned; the
\* target 30 is the price at the manager's start.
PoolCapitals == {6, 10}
PoolTargets ==
    {<<RangeTarget(25, 31)>>, <<RangeTarget(25, 31), FloatTarget(28), FloatTarget(27)>>,
     <<FloatTarget(28), FloatTarget(30), FloatTarget(32)>>}
PoolExits == {<<0 - 10, 20>>, <<10, 0 - 20>>}

DipRiseSeries == (0 :> 30) @@ (1 :> 26) @@ (2 :> 34) @@ (3 :> 30)
EarlyGapSeries == (0 :> 30) @@ (2 :> 90)
RuleSeries == {SwingSeries, DipRiseSeries, EarlyGapSeries}

InitRule ==
    /\ sf \in RuleSeries
    /\ heap = <<>>
    /\ root = 0
    /\ last = Call("init", "-", "none")
    /\ calc = None

\* A constructor call: r is the object built or the exception raised.
New(r, cls) ==
    /\ root = 0
    /\ last.op = "init"
    /\ heap' = IF r.sig = "none" THEN <<r.s>> ELSE heap
    /\ root' = IF r.sig = "none" THEN 1 ELSE 0
    /\ last' = Call("new", cls, r.sig)
    /\ UNCHANGED <<sf, calc>>

NewBuyStrategy(start, capital, threshold) ==
    New(Ret(BuyStrategyInit(start, MaxDate, capital, 4, threshold, "static"), "none"), "BuyStrategy")

NewSellStrategy(start, capital, threshold) ==
    New(Ret(SellStrategyInit(start, MaxDate, capital, 4, threshold, "static"), "none"), "SellStrategy")

NewDynamicBuyStrategy(start, capital, threshold, trigger_lookback) ==
    New(DynamicBuyStrategyInit(start, MaxDate, capital, 4, threshold, trigger_lookback, "static"),
        "DynamicBuyStrategy")

NewDynamicSellStrategy(start, capital, threshold, trigger_lookback) ==
    New(DynamicSellStrategyInit(start, MaxDate, capital, 4, threshold, trigger_lookback, "static"),
        "DynamicSellStrategy")

NewBoundedStrategy(max_holding_period) ==
    /\ sf = SwingSeries
    /\ New(Ret(BoundedStrategyInit(1, MaxDate, 10, 0 - 20, 20, "%", "%", max_holding_period), "none"),
           "BoundedStrategy")

NewMultiBoundedStrategy(capital, target_prices, exits) ==
    /\ sf = SwingSeries
    /\ New(Ret(MultiBoundedStrategyInit(1, MaxDate, capital, target_prices, 4, exits[1], exits[2],
                                         "%", "%", None, "static"),
               "none"),
           "MultiBoundedStrategy")

\* strategy.manual_orders_config = orders, before the first tick.
AssignManualOrders(orders) ==
    /\ root # 0
    /\ last.op = "new"
    /\ heap' = [heap EXCEPT ![root].manual_orders_config = orders]
    /\ last' = Call("assign", "-", "none")
    /\ UNCHANGED <<sf, root, calc>>

\* MultiStrategy([strategy]): the strategy just built becomes the only
\* sub-strategy of a composite, which is driven from then on.
Wrap ==
    /\ root # 0
    /\ last.op \in {"new", "assign"}
    /\ Self.cls # "MultiStrategy"
    /\ heap' = Append(heap, MultiStrategyInit(heap, <<root>>))
    /\ root' = Len(heap) + 1
    /\ last' = Call("wrap", "-", "none")
    /\ UNCHANGED <<sf, calc>>

NextRule ==
    \/ \E start \in RuleStarts, capital \in RuleCapitals, threshold \in StaticThresholds :
           NewBuyStrategy(start, capital, threshold)
    \/ \E start \in RuleStarts, capital \in RuleCapitals, threshold \in StaticThresholds :
           NewSellStrategy(start, capital, threshold)
    \/ \E start \in RuleStarts, capital \in RuleCapitals, threshold \in DynamicThresholds,
          trigger_lookback \in Lookbacks :
           NewDynamicBuyStrategy(start, capital, threshold, trigger_lookback)
    \/ \E start \in RuleStarts, capital \in RuleCapitals, threshold \in DynamicThresholds,
          trigger_lookback \in Lookbacks :
           NewDynamicSellStrategy(start, capital, threshold, trigger_lookback)
    \/ \E max_holding_period \in RulePeriods : NewBoundedStrategy(max_holding_period)
    \/ \E capital \in PoolCapitals, target_prices \in PoolTargets, exits \in PoolExits :
           NewMultiBoundedStrategy(capital, target_prices, exits)
    \/ \E orders \in RuleOrders : AssignManualOrders(orders)
    \/ root # 0 /\ \E date \in Dates : CheckAndDo(date)
    \/ root # 0 /\ Execute

SpecRule == InitRule /\ [][NextRule]_vars

\* The rule strategies driven alone or as the only sub-strategy of a
\* composite: the steps of SpecRule and the wrapping of the strategy built.
NextWrap ==
    \/ NextRule
    \/ Wrap

SpecWrap == InitRule /\ [][NextWrap]_vars

\* The driver of the helper functions: one call of get_last_valid_price on a
\* series, or one call of restar_intervalo.
SeriesOver(index) == [d \in index |-> 20 + 10 * d]
AllSeries == {SeriesOver(index) : index \in (SUBSET Dates) \ {{}}}
TargetDates == (0 - 1)..(MaxDate + 1)

UnitTokens ==
    {<<"d", "a", "y">>, <<"D", "a", "y", "s">>, <<"W", "E", "E", "K">>, <<"w", "k">>,
     <<"M", "w">>, <<"m", "o", "n", "t", "h">>, <<"M", "O", "N", "T", "H", "S">>, <<"m", "y">>,
     <<"Y", "R">>, <<"y", "e", "a", "r", "s">>, <<"s", "e", "c", "o", "n", "d">>,
     <<"h", "o", "u", "r">>, <<"f", "o", "r", "t", "n", "i", "g", "h", "t">>, <<"H">>}
AmountTokens == {<<"0">>, <<"1">>, <<"2">>, <<"1", "2">>, <<"1", "4">>, <<"-", "1">>}
QueryYears == {2023, 2024}
QueryMonths == {1, 2, 3, 12}
QueryDays == {1, 15, 28, 29, 30, 31}
QueryDates ==
    {strftime(datetime(t[1], t[2], t[3])) :
        t \in {u \in QueryYears \X QueryMonths \X QueryDays : u[3] <= monthrange(u[1], u[2])}}

Pending(fn, args) == [fn |-> fn, args |-> args, sig |-> "pending", value |-> None]
Done(call, outcome) == [call EXCEPT !.sig = outcome.sig, !.value = outcome.value]

InitPure ==
    /\ heap = <<>>
    /\ root = 0
    /\ last = Call("init", "-", "none")
    /\ \/ /\ sf \in AllSeries
          /\ \E target_date \in TargetDates : calc = Pending("get_last_valid_price", <<target_date>>)
       \/ /\ sf = GapSeries
          /\ \E fecha_str \in QueryDates, amount \in AmountTokens, unit \in UnitTokens :
                 calc = Pending("restar_intervalo", <<fecha_str, <<amount, unit>>>>)

GetLastValidPrice ==
    /\ calc.sig = "pending"
    /\ calc.fn = "get_last_valid_price"
    /\ calc' = Done(calc, Outcome("none", get_last_valid_price(calc.args[1])))
    /\ UNCHANGED <<sf, heap, root, last>>

RestarIntervalo ==
    /\ calc.sig = "pending"
    /\ calc.fn = "restar_intervalo"
    /\ calc' = Done(calc, restar_intervalo(calc.args[1], calc.args[2]))
    /\ UNCHANGED <<sf, heap, root, last>>

NextPure == GetLastValidPrice \/ RestarIntervalo

SpecPure == InitPure /\ [][NextPure]_vars

\* ===================================================================== claims
Priced(date) == ResolvePrice(date) # None
PriceAt(date) == Val(ResolvePrice(date))
FailedOp(type, cash, date) == Operation(type, cash, PriceAt(date), FALSE, date, "manual")
FilledOp(type, cash, date) == Operation(type, cash, PriceAt(date), TRUE, date, "manual")

\* Strategy and its subclasses carry fiat, stock and an operation log.
IsStrategy(s) == s.cls # "MultiStrategy"

\* C1 (as claimed): in every reachable state of a Strategy fiat >= 0 and
\* stock >= 0.
C1_NonNegativeBalances == IsStrategy(Self) => Self.fiat >= 0 /\ Self.stock >= 0

\* C2 (as claimed): whenever close_trade has just returned, stock == 0 and
\* profits == fiat - initial_capital.
C2_ClosedIsFlat ==
    (IsStrategy(Self) /\ last.op = "close_trade") =>
        /\ Self.stock = 0
        /\ Self.profits = Some(Self.fiat - Self.initial_capital)

\* C3: a close_trade called directly after a close_trade, with any date and
\* trigger, changes nothing: fiat, stock, profits, the closed flag and the
\* operation log of the object and of every object it owns stay as the
\* first call left them; for the base Strategy, the manager and the
\* composite.
C3_CloseTwiceChangesNothing ==
    [][\A date \in Dates, trigger \in CloseTriggers :
          (last.op = "close_trade" /\ CloseTrade(date, trigger)) =>
              (heap' = heap /\ last'.sig = "none")]_vars

\* A composite that reclaimed from its sub-strategies has been closed twice.
C3_Witness ==
    /\ Self.cls = "MultiStrategy"
    /\ last.op = "close_trade"
    /\ last.path = "closed"
    /\ Self.closed
    /\ Self.fiat > 0
    /\ Len(Self.finished_strategies) = 2

\* C4 (as claimed): once a strategy is closed no later call changes its
\* fiat, stock, profits or operation log.
C4_ClosedIsTerminal ==
    [][(IsStrategy(heap[root]) /\ heap[root].closed /\ last'.op # "close_trade") =>
          /\ heap'[root].fiat = heap[root].fiat
          /\ heap'[root].stock = heap[root].stock
          /\ heap'[root].profits = heap[root].profits
          /\ heap'[root].operations = heap[root].operations]_vars

\* C5: get_profit raises TradeNotClosed on every object (base, manager or
\* composite) that has not been closed; a close_trade on an open object makes
\* it return fiat - initial_capital as that call left them, and until the
\* next close_trade, called directly or by execute, it keeps returning that
\* value.
C5_GetProfit ==
    [][/\ ~Self.closed => Obj_get_profit(Self).sig = "TradeNotClosed"
       /\ ~heap'[root].closed => Obj_get_profit(heap'[root]).sig = "TradeNotClosed"
       /\ (last'.op = "close_trade" /\ ~Self.closed) =>
              Obj_get_profit(heap'[root]) =
                  [value |-> heap'[root].fiat - heap'[root].initial_capital, sig |-> "none"]
       /\ (last'.op \notin {"close_trade", "execute"} /\ Self.closed) =>
              Obj_get_profit(heap'[root]) = Obj_get_profit(Self)]_vars

\* A closed manager whose cash moved after the close still reports the
\* profit of the close.
C5_Witness ==
    /\ Self.cls = "MultiBoundedStrategy"
    /\ Self.closed
    /\ last.op = "check_and_do"
    /\ Obj_get_profit(Self).sig = "none"
    /\ Obj_get_profit(Self).value # Self.fiat - Self.initial_capital

\* C6 (as claimed): a buy whose cash amount (at least one cent) exceeds
\* the available fiat raises NotEnoughCashError, leaves fiat and stock
\* unchanged and appends exactly one failed Operation carrying the cash
\* amount and the resolved price.
C6_UnfundedBuyRejected ==
    [][\A quantity \in Quantities, date \in CallDates, override \in Overrides :
          LET cash == calculate_order_amount(Self, quantity, override)
          IN  (/\ last'.op = "buy"
               /\ Buy(quantity, date, override)
               /\ Priced(date)
               /\ cash >= 1
               /\ cash > Self.fiat) =>
                  /\ last'.sig = "NotEnoughCashError"
                  /\ heap'[root].fiat = Self.fiat
                  /\ heap'[root].stock = Self.stock
                  /\ heap'[root].operations = Append(Self.operations, FailedOp("buy", cash, date))]_vars

\* C7: a sell whose stock amount round(cash / price, 8) exceeds the held
\* stock by more than 1e-6 raises NotEnoughStockError, leaves fiat and
\* stock unchanged and appends exactly one failed Operation carrying the
\* attempted cash amount and the price.
C7_UncoveredSellRejected ==
    [][\A quantity \in Quantities, date \in CallDates, override \in Overrides :
          LET cash == SellCashAmount(Self, quantity, PriceAt(date), override)
          IN  (/\ last'.op = "sell"
               /\ Sell(quantity, date, override)
               /\ Priced(date)
               /\ cash >= 1
               /\ StockFor(cash, PriceAt(date)) - Self.stock > 100) =>
                  /\ last'.sig = "NotEnoughStockError"
                  /\ heap'[root].fiat = Self.fiat
                  /\ heap'[root].stock = Self.stock
                  /\ heap'[root].operations = Append(Self.operations, FailedOp("sell", cash, date))]_vars

C7_Witness ==
    /\ last.op = "sell"
    /\ last.sig = "NotEnoughStockError"
    /\ Self.operations # <<>>
    /\ ~Self.operations[Len(Self.operations)].succesful
    /\ Self.operations[Len(Self.operations)].type = "sell"

\* The cash amount C8 states for a buy: the quantity itself (static), the
\* quantity times the initial capital, or the quantity times the current fiat,
\* in cents.
C8_CashAmount(quantity, override) ==
    LET sizing == IF override = "None" THEN Self.sizing_type ELSE override
    IN  CASE sizing = "static" -> quantity
          [] sizing = "initial" -> RoundHalfEven(quantity * Self.initial_capital, 100)
          [] sizing = "current" -> RoundHalfEven(quantity * Self.fiat, 100)

\* C8: a funded buy decreases fiat by exactly the cash amount of its sizing
\* mode, increases stock by cash / price (to 8 decimals) and appends exactly
\* one successful buy Operation with that cash amount.
C8_FundedBuy ==
    [][\A quantity \in Quantities, date \in CallDates, override \in Overrides :
          LET cash == C8_CashAmount(quantity, override)
          IN  (/\ last'.op = "buy"
               /\ Buy(quantity, date, override)
               /\ Priced(date)
               /\ cash >= 1
               /\ cash <= Self.fiat) =>
                  /\ last'.sig = "none"
                  /\ heap'[root].fiat = Self.fiat - cash
                  /\ heap'[root].stock = Self.stock + StockFor(cash, PriceAt(date))
                  /\ heap'[root].operations = Append(Self.operations, FilledOp("buy", cash, date))]_vars

\* A buy under percent-of-current sizing was filled after the fiat had moved
\* away from the initial capital.
C8_Witness ==
    /\ last.op = "buy"
    /\ last.path = "filled"
    /\ Len(Self.operations) = 2
    /\ Self.operations[1].succesful
    /\ Self.operations[2].succesful
    /\ Self.operations[2].type = "buy"
    /\ Self.fiat >= 0

\* C9 (as claimed): a sell under percent-of-current sizing that goes through
\* is for the cash amount stock * price * quantity.
C9_SellCurrentIsPositionShare ==
    [][\A quantity \in Quantities, date \in CallDates, override \in Overrides :
          (/\ last'.op = "sell"
           /\ Sell(quantity, date, override)
           /\ CurrentSizing(Self, override) = "current"
           /\ last'.path = "filled") =>
              heap'[root].operations[Len(heap'[root].operations)].cash_amount
                  = PositionValue(Self.stock, PriceAt(date), quantity)]_vars

\* C10: a buy or a sell for which no price can be resolved, or whose cash
\* amount is below one cent, changes nothing and raises no signal.
C10_SkippedOrderIsNoOp ==
    [][\A quantity \in Quantities, date \in CallDates, override \in Overrides :
          /\ (/\ last'.op = "buy"
              /\ Buy(quantity, date, override)
              /\ (~Priced(date) \/ C8_CashAmount(quantity, override) < 1)) =>
                 (heap' = heap /\ last'.sig = "none")
          /\ (/\ last'.op = "sell"
              /\ Sell(quantity, date, override)
              /\ (~Priced(date) \/ SellCashAmount(Self, quantity, PriceAt(date), override) < 1)) =>
                 (heap' = heap /\ last'.sig = "none")]_vars

C10_Witness ==
    /\ last.op \in {"buy", "sell"}
    /\ last.path \in {"no_price", "dust"}
    /\ last.sig = "none"

\* The last entry of the operation log of s.
LastOp(s) == s.operations[Len(s.operations)]

\* The step closed the driven BoundedStrategy with one sell logged under
\* trigger, and raised the stop signal.
ExitedBy(trigger) ==
    /\ heap'[root].closed
    /\ Len(heap'[root].operations) = Len(Self.operations) + 1
    /\ LastOp(heap'[root]).type = "sell"
    /\ LastOp(heap'[root]).trigger = trigger
    /\ last'.sig = "StopChecking"

\* C11: a tick of an open BoundedStrategy on a priced date applies the first
\* exit that qualifies, stop-loss before take-profit: a price at or below the
\* stop-loss level closes with trigger "stop_loss" even when the take-profit
\* level or a holding period also qualifies, and a price above the stop-loss
\* level and at or above the take-profit level closes with "take_profit".
C11_ExitPriority ==
    [][\A date \in DOMAIN sf :
          (/\ last'.op = "check_and_do"
           /\ Self.cls = "BoundedStrategy"
           /\ ~Self.closed
           /\ CheckAndDo(date)) =>
              IF sf[date] * 100 <= Self.stop_loss THEN ExitedBy("stop_loss")
              ELSE sf[date] * 100 >= Self.take_profit => ExitedBy("take_profit")]_vars

\* A tick closed a BoundedStrategy by its stop-loss on a date whose price was
\* also at or above its take-profit level, with a holding period set.
C11_Witness ==
    /\ Self.cls = "BoundedStrategy"
    /\ last.op = "check_and_do"
    /\ last.sig = "StopChecking"
    /\ Self.closed
    /\ Self.max_holding_period # None
    /\ LastOp(Self).trigger = "stop_loss"
    /\ LastOp(Self).stock_price * 100 >= Self.take_profit

\* The holding period of s has elapsed on date.
HeldLongEnough(s, date) ==
    /\ s.max_holding_period # None
    /\ date - int(Val(s.max_holding_period)[1]) >= s.start

BoundedIds == {i \in 1..Len(heap) : heap[i].cls = "BoundedStrategy"}

\* The log of s opens with its entry and holds no other buy.
EnteredOnce(s) ==
    /\ Len(s.operations) >= 1
    /\ s.operations[1].type = "buy"
    /\ s.operations[1].succesful
    /\ s.operations[1].fecha = s.start
    /\ s.operations[1].cash_amount = s.initial_capital
    /\ \A k \in 2..Len(s.operations) : s.operations[k].type # "buy"

\* C13: a BoundedStrategy enters exactly once, at construction: the first
\* entry of its log is the buy of its whole capital at its start and no other
\* buy is ever logged; once it is closed, no tick and no execute() adds an
\* operation to its log.
C13_EntersOnce ==
    /\ [](\A i \in BoundedIds : EnteredOnce(heap[i]))
    /\ [][(last'.op \in {"check_and_do", "execute"}) =>
              \A i \in BoundedIds : heap[i].closed => heap'[i].operations = heap[i].operations]_vars

\* A BoundedStrategy closed on a day without price, still holding its stock,
\* has then been ticked on a date where its stop-loss level is hit.
C13_Witness ==
    /\ Self.cls = "BoundedStrategy"
    /\ Self.closed
    /\ Self.stock > 0
    /\ last.op = "check_and_do"
    /\ last.sig = "StopChecking"

\* The static managers of the heap and the number of children of one.
ManagerIds == {i \in 1..Len(heap) : heap[i].cls = "MultiBoundedStrategy"}
Kids(mg) == Len(mg.active_strategies) + Len(mg.finished_strategies)
TargetSet(mg) == {mg.target_prices[k] : k \in 1..Len(mg.target_prices)}

\* C14: in a static manager a target fires at most once: the manager never
\* has more children than triggered targets, nor than targets, and a step
\* adds at most one child per target it newly marks as triggered, so a
\* target whose condition still holds on a later date spawns no second child.
C14_TargetFiresOnce ==
    /\ [](\A m \in ManagerIds :
              /\ heap[m].triggered_targets \subseteq TargetSet(heap[m])
              /\ Kids(heap[m]) <= Cardinality(heap[m].triggered_targets)
              /\ Kids(heap[m]) <= Len(heap[m].target_prices))
    /\ [][\A m \in ManagerIds :
              /\ heap[m].triggered_targets \subseteq heap'[m].triggered_targets
              /\ Kids(heap'[m]) - Kids(heap[m])
                     <= Cardinality(heap'[m].triggered_targets \ heap[m].triggered_targets)]_vars

\* A manager with one range target spawned a child on day 1 and ticked it on
\* day 2, where the price was again inside the range: it still has one child.
C14_Witness ==
    /\ Self.cls = "MultiBoundedStrategy"
    /\ Self.target_prices = <<RangeTarget(25, 31)>>
    /\ ConditionMet(Self, RangeTarget(25, 31), sf[1])
    /\ ConditionMet(Self, RangeTarget(25, 31), sf[2])
    /\ Len(Self.finished_strategies) = 1
    /\ heap[Self.finished_strategies[1]].start = 1
    /\ LastOp(heap[Self.finished_strategies[1]]).fecha = 2
    /\ Kids(Self) = 1

\* Target k of manager mg is untriggered and its condition is met at price.
Due(mg, k, price) ==
    /\ mg.target_prices[k] \notin mg.triggered_targets
    /\ ConditionMet(mg, mg.target_prices[k], price)

\* C15 (as claimed): when the first target a tick of a static manager finds
\* due asks for an allocation of at least one cent that the manager's fiat
\* does not cover, the tick spawns no child for it and does not add it to
\* the triggered set, so that it is tried again on a later qualifying date.
C15_UnfundedTargetIsRetried ==
    [][\A date \in DOMAIN sf :
          (/\ last'.op = "check_and_do"
           /\ Self.cls = "MultiBoundedStrategy"
           /\ CheckAndDo(date)) =>
              \A k \in 1..Len(Self.target_prices) :
                  (/\ Due(Self, k, sf[date])
                   /\ \A j \in 1..(k - 1) : ~Due(Self, j, sf[date])
                   /\ Allocation100(Self) >= 100
                   /\ Self.fiat * 100 < Allocation100(Self)) =>
                      Self.target_prices[k] \notin heap'[root].triggered_targets]_vars

\* The sum of fiat - initial_capital over the strategies strats of heap h.
RECURSIVE SumGain(_, _)
SumGain(h, strats) ==
    IF strats = <<>> THEN 0
    ELSE h[Head(strats)].fiat - h[Head(strats)].initial_capital + SumGain(h, Tail(strats))

\* C16: the capital of a manager is conserved: its fiat plus the allocations
\* (initial_capital) of its active children equals its initial capital plus
\* the realized gain or loss (fiat - initial_capital) of its finished
\* children; each child therefore starts with exactly what was debited.
C16_CapitalConserved ==
    \A m \in ManagerIds :
        heap[m].fiat + SumCapital(heap, heap[m].active_strategies)
            = heap[m].initial_capital + SumGain(heap, heap[m].finished_strategies)

\* A manager holds an active child and a finished child that made a gain.
C16_Witness ==
    /\ Self.cls = "MultiBoundedStrategy"
    /\ Len(Self.active_strategies) = 1
    /\ Len(Self.finished_strategies) = 1
    /\ SumGain(heap, Self.finished_strategies) > 0
    /\ Self.fiat < Self.initial_capital

\* The sum of the fiat of the strategies strats of heap h.
RECURSIVE SumFiat(_, _)
SumFiat(h, strats) ==
    IF strats = <<>> THEN 0 ELSE h[Head(strats)].fiat + SumFiat(h, Tail(strats))

\* The elements of a sequence.
Range(seq) == {seq[k] : k \in 1..Len(seq)}

\* C17: a composite built with + starts with the sum of its children's
\* initial capital and with fiat 0; when execute() has run on a composite,
\* every child it had is closed and in its finished list exactly once, its
\* fiat is the sum of their final fiat, and get_profit() returns
\* fiat - initial_capital.
C17_CompositeAggregates ==
    [][/\ last'.op = "add" =>
              /\ heap'[root'].cls = "MultiStrategy"
              /\ heap'[root'].fiat = 0
              /\ heap'[root'].initial_capital = SumCapital(heap', heap'[root'].active_strategies)
       /\ (last'.op = "execute" /\ Self.cls = "MultiStrategy") =>
              /\ last'.sig = "none"
              /\ heap'[root].active_strategies = <<>>
              /\ Len(heap'[root].finished_strategies) = Cardinality(Listed(Self))
              /\ Range(heap'[root].finished_strategies) = Listed(Self)
              /\ \A i \in Listed(Self) : heap'[i].closed
              /\ heap'[root].fiat = SumFiat(heap', heap'[root].finished_strategies)
              /\ MultiStrategy_get_profit(heap'[root])
                     = [value |-> heap'[root].fiat - heap'[root].initial_capital, sig |-> "none"]]_vars

\* execute() has run on a composite of four strategies that + built from a
\* composite and two strategies, and that had not been ticked before.
C17_Witness ==
    /\ root > 5
    /\ last.op = "execute"
    /\ Self.closed
    /\ Len(Self.finished_strategies) = 4
    /\ Self.fiat # Self.initial_capital

\* The composites of the heap.
CompositeIds == {i \in 1..Len(heap) : heap[i].cls = "MultiStrategy"}

NoRepeat(seq) == Cardinality(Range(seq)) = Len(seq)

\* Sequence old is a prefix of sequence new.
Prefix(old, new) == Len(old) <= Len(new) /\ \A k \in 1..Len(old) : new[k] = old[k]

\* C19 (as claimed): a child strategy is in exactly one list of exactly one
\* composite: no composite lists a strategy twice or in both its lists, no
\* two composites list the same strategy, also after + has combined
\* composites; a child moves from the active to the finished list once and
\* never back, and it leaves the active list only for the finished one.
C19_OneListOneComposite ==
    /\ [](\A c \in CompositeIds :
              /\ NoRepeat(heap[c].active_strategies \o heap[c].finished_strategies)
              /\ \A d \in CompositeIds \ {c} : Listed(heap[c]) \cap Listed(heap[d]) = {})
    /\ [][\A c \in CompositeIds :
              /\ Prefix(heap[c].finished_strategies, heap'[c].finished_strategies)
              /\ Range(heap'[c].active_strategies) \subseteq Range(heap[c].active_strategies)
              /\ Listed(heap'[c]) = Listed(heap[c])]_vars

\* + has put the children of the composite the driver started with into a
\* new composite, and the older one lists them still.
C19_Witness ==
    /\ Cardinality(CompositeIds) = 2
    /\ Listed(heap[3]) \subseteq Listed(Self)
    /\ root # 3

\* The signals by which a sub-strategy tells its parent that it is done.
TerminationSignals == {"StopChecking", "NotEnoughStockError", "NotEnoughCashError"}

\* What a tick of parent p on date does to its child i, whose own
\* check_and_do has the outcome r: a signalling child ends closed and at the
\* end of the finished list, any other child stays active as its tick left it.
ChildHandled(p, i, r) ==
    IF r.sig \in TerminationSignals
    THEN /\ heap'[i].closed
         /\ i \in Range(heap'[p].finished_strategies)
         /\ i \notin Range(heap'[p].active_strategies)
    ELSE /\ r.sig = "none"
         /\ heap'[i] = r.h[i]
         /\ i \in Range(heap'[p].active_strategies)

\* The children of parent p that the step moved to its finished list.
NewlyFinished(p) == Range(heap'[p].finished_strategies) \ Range(heap[p].finished_strategies)

\* The sum of h[i].fiat over the set ids.
RECURSIVE SumFiatOf(_, _)
SumFiatOf(h, ids) ==
    IF ids = {} THEN 0
    ELSE LET i == CHOOSE x \in ids : TRUE IN h[i].fiat + SumFiatOf(h, ids \ {i})

\* C20: a tick of a composite raises nothing when its children raise
\* termination signals: each signalling child, of the composite and of a
\* manager the composite holds, ends closed and in the finished list of its
\* parent, the composite's fiat grows by the fiat of the children it
\* finished, and every other active child is ticked on that date all the same.
C20_SignalsAreAbsorbed ==
    [][\A date \in Dates :
          (/\ last'.op = "check_and_do"
           /\ Self.cls = "MultiStrategy"
           /\ CheckAndDo(date)) =>
              /\ last'.sig = "none"
              /\ \A i \in Range(Self.active_strategies) :
                     /\ ChildHandled(root, i, Sub_check_and_do(heap, i, date))
                     /\ (heap[i].cls = "MultiBoundedStrategy" /\ get_price_in(date) # None) =>
                            \A k \in Range(heap[i].active_strategies) :
                                ChildHandled(i, k, Sub_check_and_do(heap, k, date))
              /\ heap'[root].fiat = Self.fiat + SumFiatOf(heap', NewlyFinished(root))]_vars

\* A tick found a BuyStrategy open at its end date: the composite closed it,
\* which sold its stock, and went on to tick the leaf listed after it, whose
\* manual order of that date was filled.
C20_Witness ==
    /\ Self.cls = "MultiStrategy"
    /\ last.op = "check_and_do"
    /\ \E b \in Range(Self.finished_strategies), a \in Range(Self.active_strategies) :
           /\ heap[b].cls = "BuyStrategy"
           /\ Len(heap[b].operations) = 2
           /\ LastOp(heap[b]).trigger = "sub_strategy_finish"
           /\ heap[a].cls = "Strategy"
           /\ Len(heap[a].operations) = 1
           /\ LastOp(heap[a]).fecha = LastOp(heap[b]).fecha

MaxOf(S) == CHOOSE x \in S : \A y \in S : x >= y
OnOrBefore(d) == {e \in DOMAIN sf : e <= d}

\* C23: get_last_valid_price(d) returns the Close of the greatest date of the
\* series that is <= d, whatever gaps the series has, and so never a price
\* dated after d; it returns None exactly when d is earlier than the first
\* date of the series, and it raises nothing.
C23_LastValidPrice ==
    [][(calc.sig = "pending" /\ calc.fn = "get_last_valid_price" /\ GetLastValidPrice) =>
           /\ calc'.sig = "none"
           /\ (calc'.value = None) <=> (calc.args[1] < first_available_date)
           /\ OnOrBefore(calc.args[1]) # {} =>
                  calc'.value = Some(sf[MaxOf(OnOrBefore(calc.args[1]))])
           /\ \A e \in DOMAIN sf : e > calc.args[1] => calc'.value # Some(sf[e])]_vars

\* A query on a day without a row, two days after the last row before it.
C23_Witness ==
    /\ calc # None
    /\ calc.fn = "get_last_valid_price"
    /\ calc.sig = "none"
    /\ calc.args[1] = 2
    /\ DOMAIN sf = {0, 3}
    /\ calc.value = Some(sf[0])

\* The unit each token of UnitTokens stands for, read off letter by letter.
DayTokens == {<<"d", "a", "y">>, <<"D", "a", "y", "s">>, <<"s", "e", "c", "o", "n", "d">>}
WeekTokens == {<<"W", "E", "E", "K">>, <<"w", "k">>, <<"M", "w">>}
MonthTokens == {<<"m", "o", "n", "t", "h">>, <<"M", "O", "N", "T", "H", "S">>, <<"m", "y">>}
YearTokens == {<<"Y", "R">>, <<"y", "e", "a", "r", "s">>}

IsCall(fn) == calc.sig = "pending" /\ calc.fn = fn
Asked == strptime(calc.args[1])
Amount == int(calc.args[2][1])
Token == calc.args[2][2]
Answer == strptime(Val(calc'.value))
MonthCount(dt) == 12 * dt.year + dt.month

\* C24: restar_intervalo resolves the unit token of "<integer> <unit>"
\* without regard to case by the first of the letters d, w, m, y it contains,
\* in that order (days, weeks, months, years); a token with none of them
\* raises NotValidIntervalError and nothing else, and returns no date; the
\* call changes nothing but its own result.
C24_UnitResolution ==
    [][(IsCall("restar_intervalo") /\ RestarIntervalo) =>
           /\ UNCHANGED <<sf, heap, root, last>>
           /\ calc'.args = calc.args
           /\ Token \in DayTokens =>
                  calc'.sig = "none" /\ toordinal(Answer) = toordinal(Asked) - Amount
           /\ Token \in WeekTokens =>
                  calc'.sig = "none" /\ toordinal(Answer) = toordinal(Asked) - 7 * Amount
           /\ Token \in MonthTokens =>
                  calc'.sig = "none" /\ MonthCount(Answer) = MonthCount(Asked) - Amount
           /\ Token \in YearTokens =>
                  calc'.sig = "none" /\ MonthCount(Answer) = MonthCount(Asked) - 12 * Amount
           /\ Token \notin (DayTokens \cup WeekTokens \cup MonthTokens \cup YearTokens) =>
                  calc'.sig = "NotValidIntervalError" /\ calc'.value = None]_vars

\* "2 fortnight" has been refused.
C24_Witness ==
    /\ calc # None
    /\ calc.fn = "restar_intervalo"
    /\ calc.sig = "NotValidIntervalError"
    /\ calc.args[2] = <<<<"2">>, <<"f", "o", "r", "t", "n", "i", "g", "h", "t">>>>

\* The days of a month, as a table for the years the queries reach.
LeapYears == {2008, 2012, 2016, 2020, 2024}
DaysIn(year, month) ==
    IF month \in {1, 3, 5, 7, 8, 10, 12} THEN 31
    ELSE IF month \in {4, 6, 9, 11} THEN 30
    ELSE IF year \in LeapYears THEN 29
    ELSE 28

\* C25: subtracting months or years keeps the day of the month when the
\* month reached has it and otherwise gives the last day of that month:
\* 2024-03-15 minus 1 month is 2024-02-15 and 2024-03-31 minus 1 month is
\* 2024-02-29.  For an amount >= 0 the result of any recognised unit is not
\* later than the date given.
C25_CalendarAware ==
    [][(IsCall("restar_intervalo") /\ RestarIntervalo) =>
           /\ Token \in (MonthTokens \cup YearTokens) =>
                  Answer.day = Min(Asked.day, DaysIn(Answer.year, Answer.month))
           /\ (Token \in MonthTokens /\ Amount = 1
                   /\ calc.args[1] = <<"2", "0", "2", "4", "-", "0", "3", "-", "1", "5">>) =>
                  calc'.value = Some(<<"2", "0", "2", "4", "-", "0", "2", "-", "1", "5">>)
           /\ (Token \in MonthTokens /\ Amount = 1
                   /\ calc.args[1] = <<"2", "0", "2", "4", "-", "0", "3", "-", "3", "1">>) =>
                  calc'.value = Some(<<"2", "0", "2", "4", "-", "0", "2", "-", "2", "9">>)
           /\ (calc'.sig = "none" /\ Amount >= 0) => toordinal(Answer) <= toordinal(Asked)]_vars

\* 2024-03-31 minus "1 month" has given 2024-02-29.
C25_Witness ==
    /\ calc # None
    /\ calc.fn = "restar_intervalo"
    /\ calc.args = <<<<"2", "0", "2", "4", "-", "0", "3", "-", "3", "1">>,
                     <<<<"1">>, <<"m", "o", "n", "t", "h">>>>>>
    /\ calc.value = Some(<<"2", "0", "2", "4", "-", "0", "2", "-", "2", "9">>)

\* C21 (as claimed): every execute() returns without an exception and leaves
\* the strategy closed with its profits set, whatever signal (insufficient
\* cash, insufficient stock, stop-checking, invalid interval) was raised
\* inside its loop.
C21_ExecuteAlwaysCloses ==
    [][(last'.op = "execute" /\ root # 0 /\ Execute) =>
           /\ last'.sig = "none"
           /\ heap'[root].closed
           /\ heap'[root].profits # None]_vars

\* An execute() that caught a signal of its loop and closed the strategy:
\* the automatic buy of a BuyStrategy could not be funded.
C21_Witness ==
    /\ root # 0
    /\ Self.cls = "BuyStrategy"
    /\ last.op = "execute"
    /\ last.sig = "none"
    /\ Self.closed
    /\ \E k \in 1..Len(Self.operations) : ~Self.operations[k].succesful

\* C22 (as claimed): a tick of a strategy of any class executes the manual
\* orders scheduled for the ticked date as Strategy.check_and_do does: the
\* log after the tick begins with the log the base method leaves, an
\* unfunded manual order being logged as failed without ending the tick.
C22_ManualOrdersHonoured ==
    [][\A date \in Dates :
          (last'.op = "check_and_do" /\ root # 0 /\ CheckAndDo(date)) =>
              Prefix(check_and_do(Self, date).operations, heap'[root].operations)]_vars

\* A tick of a BuyStrategy has logged an unfunded manual buy as failed and
\* gone on with the next manual order and its own automatic buy.
C22_Witness ==
    /\ root # 0
    /\ Self.cls = "BuyStrategy"
    /\ last.op = "check_and_do"
    /\ Len(Self.operations) = 3
    /\ Self.operations[1].trigger = "manual_order" /\ ~Self.operations[1].succesful
    /\ Self.operations[2].trigger = "manual_order" /\ Self.operations[2].succesful
    /\ Self.operations[3].trigger = "automatic_check"

\* The operations a step appended to the log of the driven strategy.
Appended == SubSeq(heap'[root].operations, Len(Self.operations) + 1, Len(heap'[root].operations))
AutomaticOf(ops, trigger) == {k \in 1..Len(ops) : ops[k].trigger = trigger}

\* The static threshold of s is met by the exact price of date.
Qualifies(s, date) ==
    /\ s.start <= date /\ date < s.end
    /\ date \in DOMAIN sf
    /\ \/ s.threshold.kind = "float" /\ sf[date] = s.threshold.lo
       \/ s.threshold.kind = "tuple" /\ s.threshold.lo <= sf[date] /\ sf[date] <= s.threshold.hi

\* C26: a tick of a BuyStrategy or SellStrategy attempts its automatic trade
\* (one buy, or one sell, of amount_per_trade at the price of the date,
\* logged under "automatic_check") exactly when start <= date < end, the
\* date has a price of its own and that price equals the float threshold or
\* lies in the closed range of the tuple threshold; on any other tick no
\* automatic trade is logged; every tick on a date >= end raises
\* StopChecking.
C26_StaticThreshold ==
    [][\A date \in Dates :
          (/\ last'.op = "check_and_do"
           /\ root # 0
           /\ Self.cls \in {"BuyStrategy", "SellStrategy"}
           /\ CheckAndDo(date)) =>
              /\ Prefix(Self.operations, heap'[root].operations)
              /\ IF Qualifies(Self, date)
                 THEN /\ Cardinality(AutomaticOf(Appended, "automatic_check")) = 1
                      /\ LastOp(heap'[root]).trigger = "automatic_check"
                      /\ LastOp(heap'[root]).type = (IF Self.cls = "BuyStrategy" THEN "buy" ELSE "sell")
                      /\ LastOp(heap'[root]).fecha = date
                      /\ LastOp(heap'[root]).stock_price = sf[date]
                      /\ LastOp(heap'[root]).cash_amount = Self.amount_per_trade
                 ELSE AutomaticOf(Appended, "automatic_check") = {}
              /\ date >= Self.end => last'.sig = "StopChecking"]_vars

\* A SellStrategy has sold on a tick at a price equal to the lower end of
\* its range.
C26_Witness ==
    /\ root # 0
    /\ Self.cls = "SellStrategy"
    /\ last.op = "check_and_do"
    /\ Self.threshold.kind = "tuple"
    /\ LastOp(Self).trigger = "automatic_check"
    /\ LastOp(Self).succesful
    /\ LastOp(Self).stock_price = Self.threshold.lo

\* The first rejected automatic buy of log ops, or 0.
FirstFailedBuy(ops) ==
    IF \E k \in 1..Len(ops) : ops[k].trigger = "automatic_check" /\ ~ops[k].succesful
    THEN CHOOSE k \in 1..Len(ops) :
             /\ ops[k].trigger = "automatic_check" /\ ~ops[k].succesful
             /\ \A j \in 1..(k - 1) : ops[j].trigger # "automatic_check" \/ ops[j].succesful
    ELSE 0

\* The cash of a strategy that began with capital, after the first k
\* operations of log ops.
RECURSIVE CashAfter(_, _, _)
CashAfter(ops, k, capital) ==
    IF k = 0 THEN capital
    ELSE IF ~ops[k].succesful THEN CashAfter(ops, k - 1, capital)
    ELSE IF ops[k].type = "buy" THEN CashAfter(ops, k - 1, capital) - ops[k].cash_amount
    ELSE CashAfter(ops, k - 1, capital) + ops[k].cash_amount

\* After the rejected buy at position k the log goes on with the buy of the
\* cash left (if any is left), on the same date, and has no later buy.
BoughtTheRest(ops, k, fiat) ==
    /\ fiat > 0 =>
           /\ Len(ops) > k
           /\ ops[k + 1].type = "buy" /\ ops[k + 1].succesful
           /\ ops[k + 1].trigger = "last_automatic_check"
           /\ ops[k + 1].cash_amount = fiat
           /\ ops[k + 1].fecha = ops[k].fecha
    /\ \A j \in (k + 1)..Len(ops) : ops[j].trigger # "automatic_check"
    /\ \A j \in (k + 2)..Len(ops) : ops[j].type # "buy"

\* C27: when an automatic buy of a BuyStrategy is rejected for lack of cash
\* during execute(), execute() buys with all the cash left on that date,
\* makes no further automatic buy and closes the position at end: the log
\* shows the failed buy, then the buy of the remaining fiat, then at most
\* the closing sell, and the strategy ends closed with no stock.
C27_FailoverBuysTheRest ==
    [][(/\ last'.op = "execute"
        /\ root # 0
        /\ Self.cls = "BuyStrategy"
        /\ Self.operations = <<>>
        /\ Execute
        /\ FirstFailedBuy(heap'[root].operations) # 0) =>
           /\ last'.sig = "none"
           /\ heap'[root].closed
           /\ heap'[root].stock = 0
           /\ BoughtTheRest(heap'[root].operations, FirstFailedBuy(heap'[root].operations),
                            CashAfter(heap'[root].operations, FirstFailedBuy(heap'[root].operations) - 1,
                                      Self.initial_capital))]_vars

\* execute() of a BuyStrategy bought once, was refused the second buy,
\* bought with the rest and closed.
C27_Witness ==
    /\ root # 0
    /\ Self.cls = "BuyStrategy"
    /\ last.op = "execute"
    /\ Self.closed
    /\ Len(Self.operations) = 4
    /\ Self.operations[1].succesful /\ Self.operations[1].trigger = "automatic_check"
    /\ ~Self.operations[2].succesful /\ Self.operations[2].trigger = "automatic_check"
    /\ Self.operations[3].trigger = "last_automatic_check"
    /\ Self.operations[4].type = "sell"

\* The reference price of a dynamic strategy on date for a lookback of n
\* days: the Close of the last row on or before date - n, if there is one.
ReferenceDates(date, n) == {e \in DOMAIN sf : e <= date - n}

\* The dynamic condition on current price c and reference price r for a
\* threshold given in percent.
Breakout(threshold, c, r) ==
    \/ threshold.kind = "float" /\ threshold.lo > 0 /\ 100 * c >= (100 + threshold.lo) * r
    \/ threshold.kind = "float" /\ threshold.lo < 0 /\ 100 * c <= (100 + threshold.lo) * r
    \/ /\ threshold.kind = "tuple"
       /\ \/ (100 + threshold.lo) * r <= 100 * c /\ 100 * c <= (100 + threshold.hi) * r
          \/ (100 + threshold.hi) * r <= 100 * c /\ 100 * c <= (100 + threshold.lo) * r

DynamicQualifies(s, date) ==
    /\ s.start <= date /\ date < s.end
    /\ date \in DOMAIN sf
    /\ ReferenceDates(date, int(s.trigger_lookback[1])) # {}
    /\ Breakout(s.threshold, sf[date], sf[MaxOf(ReferenceDates(date, int(s.trigger_lookback[1])))])

EndAtOrBelowMinusOne(threshold) == threshold.lo <= 0 - 100 \/ threshold.hi <= 0 - 100

C29_ThresholdValidation ==
    [][\A cls \in {"DynamicBuyStrategy", "DynamicSellStrategy"} :
         \A start \in RuleStarts, capital \in RuleCapitals, threshold \in DynamicThresholds, trigger_lookback \in Lookbacks :
           (IF cls = "DynamicBuyStrategy"
            THEN NewDynamicBuyStrategy(start, capital, threshold, trigger_lookback)
            ELSE NewDynamicSellStrategy(start, capital, threshold, trigger_lookback))
           => IF EndAtOrBelowMinusOne(threshold)
              THEN /\ last'.sig = "NotValidIntervalError"
                   /\ root' = 0
                   /\ heap' = <<>>
              ELSE /\ last'.sig = "none"
                   /\ root' = 1
                   /\ heap'[1].cls = cls
                   /\ heap'[1].threshold = threshold
                   /\ heap'[1].trigger_lookback = trigger_lookback
                   /\ Len(heap'[1].operations) = (IF cls = "DynamicSellStrategy" THEN 1 ELSE 0)]_vars

C29_Witness ==
    /\ last.op = "new"
    /\ last.path = "DynamicSellStrategy"
    /\ last.sig = "NotValidIntervalError"
    /\ root = 0
    /\ heap = <<>>

\* C30: a tick of a manager on a date with a price looks at the triggers
\* first, with the cash the pool holds before the tick, and ticks the children
\* only then. The children spawned by the tick are as many of the fired
\* targets as that cash funds, whatever the children return later in the
\* tick; a child spawned by the tick is ticked by it, and is closed and
\* finished on that same date when the price already meets one of its exits;
\* every child that closes in the tick appears exactly once in the finished
\* list and no longer in the active list, every other child stays active, and
\* the pool ends with its cash less the allocations made plus the cash of the
\* children that closed, each counted once.
Count(list, x) == Cardinality({i \in 1..Len(list) : list[i] = x})

FiredTargets(date) ==
    {i \in 1..Len(Self.target_prices) :
        /\ Self.target_prices[i] \notin Self.triggered_targets
        /\ IF Self.target_prices[i].kind = "float"
           THEN \/ /\ Self.target_prices[i].lo < Val(Self.initial_ref_price)
                   /\ sf[date] <= Self.target_prices[i].lo
                \/ /\ Self.target_prices[i].lo > Val(Self.initial_ref_price)
                   /\ sf[date] >= Self.target_prices[i].lo
           ELSE Self.target_prices[i].lo <= sf[date] /\ sf[date] <= Self.target_prices[i].hi}

SpawnedNow == (Len(heap) + 1)..Len(heap')
TickedNow == {Self.active_strategies[i] : i \in 1..Len(Self.active_strategies)} \cup SpawnedNow
RetiredNow == {c \in TickedNow : heap'[c].closed}
ExitMet(child, date) == sf[date] * 100 <= child.stop_loss \/ sf[date] * 100 >= child.take_profit

RECURSIVE CashOf(_)
CashOf(children) ==
    IF children = {} THEN 0
    ELSE heap'[CHOOSE c \in children : TRUE].fiat
         + CashOf(children \ {CHOOSE c \in children : TRUE})

C30_TriggersBeforeChildren ==
    [][\A date \in DOMAIN sf :
         (/\ root # 0
          /\ Self.cls = "MultiBoundedStrategy"
          /\ Self.manual_orders_config = <<>>
          /\ CheckAndDo(date))
         => /\ last'.sig = "none"
            /\ Cardinality(SpawnedNow) = Min(Cardinality(FiredTargets(date)), Self.fiat \div Self.amount_per_trade)
            /\ \A c \in SpawnedNow :
                   /\ heap'[c].start = date
                   /\ heap'[c].operations[1].fecha = date
                   /\ heap'[c].closed = ExitMet(heap'[c], date)
                   /\ heap'[c].closed => LastOp(heap'[c]).fecha = date /\ LastOp(heap'[c]).type = "sell"
            /\ \A c \in TickedNow :
                   IF c \in RetiredNow
                   THEN /\ Count(heap'[root].finished_strategies, c) = 1
                        /\ Count(heap'[root].active_strategies, c) = 0
                        /\ Count(Self.finished_strategies, c) = 0
                   ELSE /\ Count(heap'[root].finished_strategies, c) = 0
                        /\ Count(heap'[root].active_strategies, c) = 1
            /\ Len(heap'[root].finished_strategies) = Len(Self.finished_strategies) + Cardinality(RetiredNow)
            /\ heap'[root].fiat = Self.fiat - Self.amount_per_trade * Cardinality(SpawnedNow) + CashOf(RetiredNow)]_vars

\* A tick in which a target went unfunded although the child spawned by the
\* same tick closed in it and returned enough cash to the pool for another
\* allocation.
C30_Witness ==
    /\ root # 0
    /\ Self.cls = "MultiBoundedStrategy"
    /\ last.op = "check_and_do"
    /\ Cardinality(Self.triggered_targets) = 3
    /\ Len(heap) = 3
    /\ Self.active_strategies = <<>>
    /\ Self.finished_strategies = <<2, 3>>
    /\ heap[3].start = 2
    /\ LastOp(heap[3]).fecha = 2
    /\ LastOp(heap[3]).trigger = "stop_loss"
    /\ Self.fiat >= Self.amount_per_trade

\* C31: when execute() or close_trade of a driven manager returns, its
\* active list is empty, the manager is closed, every child it has spawned is
\* closed and listed exactly once as finished, its profits are
\* fiat - initial_capital, and its fiat is what it held before the call less
\* the allocation of every child spawned during the call plus the final cash
\* of every child that was active before the call or was spawned during it,
\* each counted once.
ChildrenOf(h) == {c \in 1..Len(h) : c # root}
ActiveBefore == Range(Self.active_strategies)

RECURSIVE SumAllocated(_)
SumAllocated(children) ==
    IF children = {} THEN 0
    ELSE heap'[CHOOSE c \in children : TRUE].initial_capital
         + SumAllocated(children \ {CHOOSE c \in children : TRUE})

C31_ManagerClosesEverything ==
    [][(/\ last'.op \in {"close_trade", "execute"}
        /\ last'.sig = "none"
        /\ Self.cls = "MultiBoundedStrategy")
       => /\ heap'[root].active_strategies = <<>>
          /\ heap'[root].closed
          /\ \A c \in ChildrenOf(heap') :
                 /\ heap'[c].closed
                 /\ Count(heap'[root].finished_strategies, c) = 1
          /\ Len(heap'[root].finished_strategies) = Cardinality(ChildrenOf(heap'))
          /\ heap'[root].profits = Some(heap'[root].fiat - heap'[root].initial_capital)
          /\ heap'[root].fiat = Self.fiat - SumAllocated(SpawnedNow)
                                + SumFiatOf(heap', ActiveBefore \cup SpawnedNow)]_vars

\* execute() of a manager returned: one child had left by its own exit
\* during the run and one was still active at the end and was closed by the
\* manager.
C31_Witness ==
    /\ Self.cls = "MultiBoundedStrategy"
    /\ last.op = "execute"
    /\ last.sig = "none"
    /\ Self.closed
    /\ Self.active_strategies = <<>>
    /\ Len(Self.finished_strategies) = 2
    /\ LastOp(heap[Self.finished_strategies[1]]).trigger \in {"stop_loss", "take_profit"}
    /\ LastOp(heap[Self.finished_strategies[2]]).trigger = "parent_force_close"
    /\ Self.profits = Some(Self.fiat - Self.initial_capital)

\* The mark-to-market value of strategy s on a date with a price: its cash
\* plus its stock at the price of the date, in cents.
Equity(s, date) == s.fiat + PositionValue(s.stock, sf[date], 100)

\* The value of child i on date: for a manager its idle cash plus the value
\* of its active children, for any other strategy its own value.
RECURSIVE SumEquity(_, _)
SumEquity(ids, date) ==
    IF ids = {} THEN 0
    ELSE Equity(heap[CHOOSE i \in ids : TRUE], date) + SumEquity(ids \ {CHOOSE i \in ids : TRUE}, date)

ChildValue(i, date) ==
    IF heap[i].cls = "MultiBoundedStrategy"
    THEN heap[i].fiat + SumEquity(Range(heap[i].active_strategies), date)
    ELSE Equity(heap[i], date)

RECURSIVE SumChildValue(_, _)
SumChildValue(ids, date) ==
    IF ids = {} THEN 0
    ELSE ChildValue(CHOOSE i \in ids : TRUE, date) + SumChildValue(ids \ {CHOOSE i \in ids : TRUE}, date)

\* C34 (as claimed): on a date with a price, get_current_capital of a
\* composite or of a manager is its idle cash plus the value of each of its
\* active children, where an active child that is a manager counts with its
\* idle cash and the value of its own active children; finished children
\* count only through the cash already reclaimed.
C34_CurrentCapital ==
    \A date \in DOMAIN sf :
        Self.cls \in {"MultiStrategy", "MultiBoundedStrategy"} =>
            Obj_get_current_capital(heap, root, date)
                = Self.fiat + SumChildValue(Range(Self.active_strategies), date)

\* A composite holds an active manager that holds an active child, and an
\* active strategy that is no manager.
C34_Witness ==
    /\ Self.cls = "MultiStrategy"
    /\ \E i \in Range(Self.active_strategies) :
           /\ heap[i].cls = "MultiBoundedStrategy"
           /\ heap[i].active_strategies # <<>>
    /\ \E i \in Range(Self.active_strategies) : heap[i].cls # "MultiBoundedStrategy"

\* The rule of the claim for target t of manager mg at price: a number below
\* the reference price asks for price <= t, a number above it for
\* price >= t, a range for inclusion.
BelowReference(mg, t) == t.kind = "float" /\ t.lo < Val(mg.initial_ref_price)
AboveReference(mg, t) == t.kind = "float" /\ t.lo > Val(mg.initial_ref_price)
RuleMet(mg, t, price) ==
    \/ BelowReference(mg, t) /\ price <= t.lo
    \/ AboveReference(mg, t) /\ price >= t.lo
    \/ t.kind = "tuple" /\ t.lo <= price /\ price <= t.hi

\* C32 (as claimed): on a tick of a static manager on a date with a price,
\* every target not yet triggered is a number below the reference price, a
\* number above it or a range, and it is marked as triggered by the tick
\* exactly when the price meets its rule.
C32_TargetRules ==
    [][\A date \in DOMAIN sf :
         (/\ root # 0
          /\ Self.cls = "MultiBoundedStrategy"
          /\ CheckAndDo(date))
         => \A t \in TargetSet(Self) \ Self.triggered_targets :
                /\ BelowReference(Self, t) \/ AboveReference(Self, t) \/ t.kind = "tuple"
                /\ t \in heap'[root].triggered_targets <=> RuleMet(Self, t, sf[date])]_vars

\* A tick marked a number below the reference price and a number above it
\* as triggered, on different dates.
C32_Witness ==
    /\ root # 0
    /\ Self.cls = "MultiBoundedStrategy"
    /\ last.op = "check_and_do"
    /\ FloatTarget(28) \in Self.triggered_targets
    /\ FloatTarget(32) \in Self.triggered_targets
    /\ FloatTarget(30) \in TargetSet(Self) \ Self.triggered_targets

\* The strategies of heap h that keep a log of their own.
Loggers(h) == {i \in 1..Len(h) : "operations" \in DOMAIN h[i]}

\* The log of strategy i before the step, empty for a strategy the step built.
LogBefore(i) == IF i <= Len(heap) THEN heap[i].operations ELSE <<>>

\* The operations the step appended to the log of strategy i, but for those
\* of the closing call that ends execute().
TickedOps(i) ==
    {k \in (Len(LogBefore(i)) + 1)..Len(heap'[i].operations) :
        heap'[i].operations[k].trigger # "force_close_global"}

\* C33 (as claimed): execute() of a composite ticks every day from the
\* earliest start to the latest end of its children, and no operation these
\* ticks append to the log of a child, or of a child's child, is dated
\* before the start or after the end of that strategy; a tick of the
\* composite on a date outside the range of a child leaves that child as
\* it was.
C33_ChildStaysInItsRange ==
    [][/\ (/\ last'.op = "execute"
           /\ root # 0
           /\ Self.cls = "MultiStrategy")
          => \A i \in Loggers(heap') : \A k \in TickedOps(i) :
                 /\ heap'[i].start <= heap'[i].operations[k].fecha
                 /\ heap'[i].operations[k].fecha <= heap'[i].end
       /\ \A date \in Dates :
              (/\ last'.op = "check_and_do"
               /\ root # 0
               /\ Self.cls = "MultiStrategy"
               /\ CheckAndDo(date))
              => \A i \in Range(Self.active_strategies) :
                     (date < heap[i].start \/ date > heap[i].end) => heap'[i] = heap[i]]_vars

\* execute() of a composite whose range is wider than the range of one of
\* its children has returned, and that child has traded.
C33_Witness ==
    /\ root # 0
    /\ Self.cls = "MultiStrategy"
    /\ last.op = "execute"
    /\ \E i \in Range(Self.finished_strategies) :
           /\ "operations" \in DOMAIN heap[i]
           /\ (heap[i].start > Self.start \/ heap[i].end < Self.end)
           /\ Len(heap[i].operations) >= 2

\* The operations of a sequence dated d, in the order of the sequence.
RECURSIVE DatedOn(_, _)
DatedOn(ops, d) ==
    IF ops = <<>> THEN <<>>
    ELSE (IF Head(ops).fecha = d THEN <<Head(ops)>> ELSE <<>>) \o DatedOn(Tail(ops), d)

\* The operations of a sequence by date from d on, those of one date in the
\* order of the sequence.
RECURSIVE ByDateFrom(_, _)
ByDateFrom(ops, d) ==
    IF d > MaxDate THEN <<>> ELSE DatedOn(ops, d) \o ByDateFrom(ops, d + 1)

\* All operations of the children of strategy p, the active ones first.
RECURSIVE ChildLogs(_)
ChildLogs(strats) ==
    IF strats = <<>> THEN <<>> ELSE heap[Head(strats)].operations \o ChildLogs(Tail(strats))

\* C35 (as claimed): get_all_operations of a composite or of a manager
\* returns the description of every operation of every active and finished
\* child exactly once, by non-decreasing date, the operations of one date in
\* the order in which the logs hold them.
C35_AllOperations ==
    Self.cls \in {"MultiStrategy", "MultiBoundedStrategy"} =>
        /\ get_all_operations(heap, root).sig = "none"
        /\ Len(get_all_operations(heap, root).value)
               = Len(ChildLogs(Self.active_strategies \o Self.finished_strategies))
        /\ \A k \in 1..Len(get_all_operations(heap, root).value) :
               get_all_operations(heap, root).value[k]
                   = get_description(ByDateFrom(ChildLogs(Self.active_strategies \o Self.finished_strategies), 0)[k])

\* A manager holds a finished child with its entry and its exit and an
\* active child with its entry.
C35_Witness ==
    /\ Self.cls = "MultiBoundedStrategy"
    /\ Len(Self.active_strategies) = 1
    /\ Len(Self.finished_strategies) = 1
    /\ Len(ChildLogs(Self.active_strategies \o Self.finished_strategies)) = 3

\* C36: the log of a strategy only grows and its entries never change:
\* whatever is called on the strategy, on the manager that spawned it or on
\* the composite that holds it, the log the strategy had before the call is
\* a prefix of the log it has after it, entry by entry and field by field.
C36_LogAppendOnly ==
    [][\A i \in Loggers(heap) :
           /\ i <= Len(heap')
           /\ "operations" \in DOMAIN heap'[i]
           /\ Prefix(heap[i].operations, heap'[i].operations)]_vars

\* A tick of a manager appended the exit of a child to the log that held
\* the child's entry, annotated by the manager when it spawned the child.
C36_Witness ==
    /\ Self.cls = "MultiBoundedStrategy"
    /\ last.op = "check_and_do"
    /\ \E i \in Range(Self.finished_strategies) :
           /\ Len(heap[i].operations) = 2
           /\ heap[i].operations[1].trigger = "Static target hit"
           /\ heap[i].operations[1].fecha < heap[i].operations[2].fecha
           /\ heap[i].operations[2].trigger \in {"stop_loss", "take_profit"}

\* An entry of a log without the label of its trigger.
Trade(operation) ==
    <<operation.type, operation.cash_amount, operation.stock_price, operation.succesful, operation.fecha>>
Trades(ops) == [k \in 1..Len(ops) |-> Trade(ops[k])]

LeafClasses ==
    {"BuyStrategy", "SellStrategy", "DynamicBuyStrategy", "DynamicSellStrategy", "BoundedStrategy"}

\* C37 (as claimed): execute() of a composite whose only sub-strategy is a
\* leaf just built leaves that leaf with the trades and the cash that
\* execute() of the leaf alone leaves it with; the trades are compared by
\* type, amount, price, outcome and date, the label of the trigger set aside.
C37_WrappedRunsAlike ==
    [][(/\ last.op = "wrap"
        /\ last'.op = "execute"
        /\ heap[1].cls \in LeafClasses)
       => /\ Trades(heap'[1].operations) = Trades(Obj_execute(heap, 1).h[1].operations)
          /\ heap'[1].fiat = Obj_execute(heap, 1).h[1].fiat]_vars

\* execute() of a composite holding only a BuyStrategy has returned, after
\* an automatic buy of the BuyStrategy failed for lack of cash.
C37_Witness ==
    /\ root = 2
    /\ Self.cls = "MultiStrategy"
    /\ last.op = "execute"
    /\ heap[1].cls = "BuyStrategy"
    /\ heap[1].closed
    /\ \E k \in 1..Len(heap[1].operations) :
           /\ ~heap[1].operations[k].succesful
           /\ heap[1].operations[k].trigger = "automatic_check"

=============================================================================
